---- MODULE Spec2Model ----
(***************************************************************************)
(* Model of fgp-github: the GitHub API client (src/api/client.rs) and the  *)
(* FGP method dispatcher (src/service.rs).                                 *)
(*                                                                         *)
(* Two specifications share the variables below.                           *)
(*   SpecNew  GitHubClient::new: credential resolution from the explicit   *)
(*            argument, the process environment and the gh config file.    *)
(*   Spec     one caller at a time on a constructed service: dispatch,     *)
(*            on_start and health_check; parameter extraction, the         *)
(*            requests sent upstream, the replies, and the value or error  *)
(*            handed back to the caller.                                   *)
(*   SpecParams  as Spec, over the optional parameters and the letter case *)
(*            of the state token.                                          *)
(*   SpecLater  as Spec, with the history of the call made before.         *)
(*   SpecThreads  dispatch invoked from several threads at once.           *)
(*                                                                         *)
(* Text (error messages, response bodies) is a sequence of segments, each  *)
(* a run of bytes with a name and a byte length; repo strings are          *)
(* sequences of characters.                                                *)
(***************************************************************************)
EXTENDS Integers, Sequences, FiniteSets, TLC

VARIABLES
    environ,      \* process environment: variable name -> Option(string)
    home,         \* dirs::home_dir(): Option(path root)
    fs,           \* file system: path -> state of the file at that path
    arg,          \* the `token` argument GitHubClient::new was called with
    built,        \* result of GitHubClient::new: pending / ok(token) / err
    statted,      \* paths whose existence GitHubClient::new has checked
    token,        \* GitHubClient.token of the constructed service
    call,         \* entry point of the current call: dispatch / on_start /
                  \* health_check / method_list
    pc,           \* position of the current call: idle / wait / done / panicked
    method,       \* method name of the current dispatch call
    params,       \* parameter map of the current dispatch call
    sent,         \* upstream requests sent by the current call, in order
    replies,      \* upstream replies received by the current call, in order
    result,       \* what the call returned: Ok(value) or Err(error)
    threads,      \* the calls of the threads that invoke dispatch at once:
                  \* thread -> [pc, method, params, sent, replies, result]
    earlier,      \* history: how the call before the current one ended
    codec         \* a record of models.rs on its way through serde: the
                  \* record, its JSON value, and the record read back

vars == <<environ, home, fs, arg, built, statted, token,
          call, pc, method, params, sent, replies, result, threads, earlier,
          codec>>

----------------------------------------------------------------------------
(* Option<T>, Result<T, E> and JSON values                                 *)

None == [some |-> FALSE]
Some(v) == [some |-> TRUE, v |-> v]

Ok(v) == [ok |-> TRUE, v |-> v]
Err(e) == [ok |-> FALSE, e |-> e]

JMissing == [t |-> "missing"]
JNull == [t |-> "null"]
JNum(n) == [t |-> "num", n |-> n]
JStr(s) == [t |-> "str", s |-> s]
JObj(o) == [t |-> "obj", o |-> o]
JBool(b) == [t |-> "bool", b |-> b]

----------------------------------------------------------------------------
(* GitHubClient::new and credential resolution (SpecNew)                   *)

EnvNames == {"GITHUB_TOKEN", "GH_TOKEN", "XDG_CONFIG_HOME"}

\* values the two token variables take: unset, set but empty, set
EnvTokenValues(name) == {None, Some(""), Some("tok-" \o name)}
XdgValues == {None, Some(""), Some("/xdg")}
HomeValues == {None, Some("/home/u")}
ArgValues == {None, Some(""), Some("tok-arg")}

\* a path is the sequence of its components
PathFrom(root) == IF root = "" THEN <<>> ELSE <<root>>
Join(path, component) == Append(path, component)

\* the paths a config file can be looked up at, given the values above
XdgPaths == {Join(Join(PathFrom(x.v), "gh"), "hosts.yml") :
                x \in {y \in XdgValues : y.some}}
HomePaths == {Join(Join(Join(PathFrom(h.v), ".config"), "gh"), "hosts.yml") :
                h \in {y \in HomeValues : y.some}}
Paths == XdgPaths \cup HomePaths

\* hosts.yml documents: the value under "github.com" and, below it, the
\* value under "oauth_token"
HostValues ==
    {JMissing, JStr("scalar")}
    \cup {JObj("oauth_token" :> t) :
            t \in {JMissing, JNum(1), JStr(""), JStr("tok-file")}}
Documents == {JStr("scalar")} \cup {JObj("github.com" :> h) : h \in HostValues}

\* state of the file at a path
FileAbsent == [exists |-> FALSE]
FileUnreadable == [exists |-> TRUE, readable |-> FALSE]
FileCorrupt == [exists |-> TRUE, readable |-> TRUE, yaml |-> None]
FileWith(doc) == [exists |-> TRUE, readable |-> TRUE, yaml |-> Some(doc)]
FileStates ==
    {FileAbsent, FileUnreadable, FileCorrupt} \cup {FileWith(d) : d \in Documents}

\* serde_json::Value::get on a key: None unless the value is an object
\* holding the key
ValueGet(value, key) ==
    IF value.t = "obj" /\ key \in DOMAIN value.o /\ value.o[key] # JMissing
    THEN Some(value.o[key])
    ELSE None

\* Value::as_str
AsStr(value) == IF value.t = "str" THEN Some(value.s) ELSE None

\* Option::and_then
AndThen(opt, F(_)) == IF opt.some THEN F(opt.v) ELSE None

\* std::env::var(name): Ok only when the variable is set (and unicode)
EnvVar(env, name) == env[name]

\* gh_config_path with the two lookups in the other order
gh_config_path_HomeFirst(env, h) ==
    LET xdg == EnvVar(env, "XDG_CONFIG_HOME") IN
    IF h.some
    THEN Ok(Join(Join(Join(PathFrom(h.v), ".config"), "gh"), "hosts.yml"))
    ELSE IF xdg.some
         THEN Ok(Join(Join(PathFrom(xdg.v), "gh"), "hosts.yml"))
         ELSE Err([kind |-> "NoHomeDir"])

\* GitHubClient::gh_config_path
gh_config_path(env, h) ==
    LET xdg == EnvVar(env, "XDG_CONFIG_HOME") IN
    IF xdg.some
    THEN Ok(Join(Join(PathFrom(xdg.v), "gh"), "hosts.yml"))
    ELSE IF h.some
         THEN Ok(Join(Join(Join(PathFrom(h.v), ".config"), "gh"), "hosts.yml"))
         ELSE Err([kind |-> "NoHomeDir"])

GetHost(config) == ValueGet(config, "github.com")
GetOauthToken(host) == ValueGet(host, "oauth_token")

\* GitHubClient::read_gh_token; r is the value returned, statted the paths
\* whose existence was checked on the way
read_gh_token(env, h, files) ==
    LET config_path == gh_config_path(env, h) IN
    IF ~config_path.ok THEN [r |-> config_path, statted |-> {}]
    ELSE LET file == files[config_path.v]
             tok == AndThen(AndThen(GetHost(file.yaml.v), GetOauthToken), AsStr)
         IN [statted |-> {config_path.v},
             r |-> IF ~file.exists
                   THEN Err([kind |-> "NoTokenFound", path |-> config_path.v])
                   ELSE IF ~file.readable THEN Err([kind |-> "ReadFailed"])
                   ELSE IF ~file.yaml.some THEN Err([kind |-> "ParseFailed"])
                   ELSE IF tok.some THEN Ok(tok.v)
                   ELSE Err([kind |-> "NoOauthToken", host |-> "github.com",
                             path |-> config_path.v])]

\* resolve_token with GH_TOKEN tried before GITHUB_TOKEN
resolve_token_GhFirst(env, h, files) ==
    LET github == EnvVar(env, "GITHUB_TOKEN")
        gh == EnvVar(env, "GH_TOKEN")
    IN IF gh.some /\ gh.v # "" THEN [r |-> Ok(gh.v), statted |-> {}]
       ELSE IF github.some /\ github.v # "" THEN [r |-> Ok(github.v), statted |-> {}]
       ELSE read_gh_token(env, h, files)

\* GitHubClient::resolve_token
resolve_token(env, h, files) ==
    LET github == EnvVar(env, "GITHUB_TOKEN")
        gh == EnvVar(env, "GH_TOKEN")
    IN IF github.some /\ github.v # "" THEN [r |-> Ok(github.v), statted |-> {}]
       ELSE IF gh.some /\ gh.v # "" THEN [r |-> Ok(gh.v), statted |-> {}]
       ELSE read_gh_token(env, h, files)

\* the token GitHubClient::new settles on: `match token { Some(t) => t,
\* None => Self::resolve_token()? }`
NewToken(a, env, h, files) ==
    IF a.some THEN [r |-> Ok(a.v), statted |-> {}] ELSE resolve_token(env, h, files)

\* GitHubClient::new / GitHubService::new; buildOk is whether
\* Client::builder().build() succeeds
New(a, buildOk) ==
    /\ built = [state |-> "pending"]
    /\ arg' = a
    /\ LET tok == NewToken(a, environ, home, fs) IN
       /\ built' = IF ~tok.r.ok THEN [state |-> "err", e |-> tok.r.e]
                   ELSE IF ~buildOk THEN [state |-> "err", e |-> [kind |-> "BuildFailed"]]
                   ELSE [state |-> "ok", token |-> tok.r.v]
       /\ statted' = tok.statted
       /\ token' = IF tok.r.ok /\ buildOk THEN tok.r.v ELSE token
    /\ UNCHANGED <<codec, environ, home, fs, call, pc, method, params, sent, replies,
                   result, threads, earlier>>

----------------------------------------------------------------------------
(* Text: error messages and response bodies                                *)

\* a run of bytes of a text: its content s and its length n in bytes; a run
\* is ASCII text, one character per byte, unless it is the one below
Seg(s, n) == [s |-> s, n |-> n]

\* one character whose UTF-8 encoding takes three bytes
Wide == Seg("U+20AC", 3)

\* the two missing-scope indicators get_user looks for
ScopeEmail == Seg("user:email", 10)
ScopeRead == Seg("read:user", 9)
\* a run of bytes that holds no indicator
Pad == Seg("pad", 249)

\* number of bytes of the raw body quoted by a JSON parse error
DiagPrefix == 500

RECURSIVE Bytes(_)
Bytes(text) == IF text = <<>> THEN 0 ELSE Head(text).n + Bytes(Tail(text))

\* &text[..text.len().min(limit)]: the first limit bytes; a segment the cut
\* goes through leaves a fragment
RECURSIVE Prefix(_, _)
Prefix(text, limit) ==
    IF text = <<>> \/ limit <= 0 THEN <<>>
    ELSE IF Head(text).n <= limit
         THEN <<Head(text)>> \o Prefix(Tail(text), limit - Head(text).n)
         ELSE <<Seg("fragment", limit)>>

\* str::is_char_boundary(k): k is the start or the end of the text, or the
\* first byte of a character
RECURSIVE is_char_boundary(_, _)
is_char_boundary(text, k) ==
    IF k = 0 THEN TRUE
    ELSE IF text = <<>> \/ k < 0 THEN FALSE
    ELSE IF k >= Head(text).n THEN is_char_boundary(Tail(text), k - Head(text).n)
    ELSE Head(text) # Wide

Min(a, b) == IF a <= b THEN a ELSE b

\* str::contains for a needle that is one segment
Contains(text, needle) == \E i \in DOMAIN text : text[i] = needle

\* [&str]::join(sep)
RECURSIVE JoinText(_, _)
JoinText(texts, sep) ==
    IF texts = <<>> THEN <<>>
    ELSE IF Len(texts) = 1 THEN Head(texts)
    ELSE Head(texts) \o <<sep>> \o JoinText(Tail(texts), sep)

\* all sequences over S of length at most n
RECURSIVE SeqsUpTo(_, _)
SeqsUpTo(S, n) ==
    IF n = 0 THEN {<<>>}
    ELSE LET shorter == SeqsUpTo(S, n - 1)
         IN shorter \cup {Append(q, x) : q \in {r \in shorter : Len(r) = n - 1}, x \in S}

----------------------------------------------------------------------------
(* Upstream: requests and replies                                          *)

\* bounds of the replies explored
MaxBodyLen == 3
MaxErrors == 2

\* HTTP statuses explored: one inside the 2xx range and one outside it
Statuses == {200, 401}

\* StatusCode::is_success
is_success(status) == 200 <= status /\ status <= 299

\* bodies that are not JSON of the expected shape: ASCII text with and
\* without an indicator, and ASCII text that ends in a wide character
BodyTexts ==
    SeqsUpTo({Pad, ScopeEmail}, MaxBodyLen)
    \cup {Append(text, Wide) : text \in SeqsUpTo({Pad}, MaxBodyLen - 1)}

\* messages of the errors list of an envelope
ErrorMessages == {<<Pad>>, <<ScopeRead>>}
JList(l) == [t |-> "list", l |-> l]
ErrorLists == {JMissing, JNull} \cup {JList(l) : l \in SeqsUpTo(ErrorMessages, MaxErrors)}

\* the shape of `data` each GraphQL operation deserializes, and the REST one
Logins == {"", "octocat"}
Items == {<<>>, <<[id |-> 1, unread |-> TRUE]>>}
GoodPayloads(req) ==
    CASE req.op = "ping" -> {[shape |-> "ping", login |-> l] : l \in Logins}
      [] req.op = "viewer" ->
            \* the reply holds the fields the query selects
            {[shape |-> "viewer", login |-> "octocat", email |-> e] :
                e \in IF req.email THEN {None, Some("octo@cat")} ELSE {None}}
      [] req.op = "repo_id" ->
            \* the node id of the repository the query names
            {[shape |-> "repo_id", id |-> <<"R_">> \o req.owner \o <<"/">> \o req.name]}
      [] req.op = "pr" -> {[shape |-> "pr", number |-> req.number]}
      [] req.op = "createIssue" ->
            {[shape |-> "createIssue", title |-> req.title, number |-> 1]}
      [] OTHER -> {[shape |-> req.op, nodes |-> n] : n \in Items}

\* a payload that does not deserialize into the expected type
BadPayload == [shape |-> "bad"]

\* the payload for a pull request that does not exist:
\* {"repository": {"pullRequest": null}}
NullNode == [shape |-> "pr", pullRequest |-> JNull]
NullNodes(req) == IF req.op = "pr" THEN {NullNode} ELSE {}

JValue(v) == [t |-> "value", v |-> v]
Envelopes(req) ==
    {[t |-> "envelope", data |-> d, errors |-> e] :
        d \in {JMissing, JNull}
              \cup {JValue(v) : v \in GoodPayloads(req) \cup NullNodes(req) \cup {BadPayload}},
        e \in ErrorLists}

TextBody(text) == [t |-> "text", text |-> text]
Unreadable == [t |-> "unreadable"]
JsonBody(v) == [t |-> "json", v |-> v]

\* the bodies upstream can answer a request with
Bodies(req) ==
    {Unreadable} \cup {TextBody(x) : x \in BodyTexts}
    \cup IF req.api = "graphql" THEN Envelopes(req)
         ELSE {JsonBody(v) : v \in GoodPayloads(req) \cup {BadPayload}}

SendFailure == [kind |-> "sendfail"]
Replies(req) ==
    {SendFailure}
    \cup {[kind |-> "http", status |-> st, body |-> b] :
            st \in Statuses, b \in Bodies(req)}

\* the bytes of a body as upstream wrote them
RawText(body) ==
    CASE body.t = "text" -> body.text
      [] body.t = "json" -> <<Seg("json", 40)>>
      [] body.t = "envelope" ->
            <<Seg("{", 1)>>
            \o (CASE body.data.t = "missing" -> <<>>
                  [] body.data.t = "null" -> <<Seg("data:null", 11)>>
                  [] OTHER -> <<Seg("data:", 7), Seg("payload", 40)>>)
            \o (CASE body.errors.t = "missing" -> <<>>
                  [] body.errors.t = "null" -> <<Seg("errors:null", 13)>>
                  [] OTHER -> <<Seg("errors:[", 10)>>
                              \o JoinText(body.errors.l, Seg(",", 1))
                              \o <<Seg("]", 1)>>)
            \o <<Seg("}", 1)>>
      [] OTHER -> <<>>

\* response.text().await.unwrap_or_default()
TextOrDefault(body) == IF body.t = "unreadable" THEN <<>> ELSE RawText(body)

----------------------------------------------------------------------------
(* Errors and their Display                                                *)

\* anyhow's Display of an error: the outermost message
Display(e) ==
    CASE e.kind = "HttpStatus" ->
            <<Seg(e.api \o " request failed: ", 24), Seg(ToString(e.status), 3),
              Seg(" - ", 3)>> \o e.text
      [] e.kind = "JsonParse" ->
            <<Seg("JSON parse error: ", 18), Seg("serde error", 20),
              Seg(" | Raw: ", 8)>> \o e.raw
      [] e.kind = "GraphQLErrors" ->
            <<Seg("GraphQL errors: ", 16)>> \o e.joined
      [] OTHER -> <<Seg(e.kind, 30)>>

\* a panic: the call unwinds and nothing is returned to its caller
Panic(why) == Err([kind |-> "Panic", why |-> why])
IsPanic(r) == "ok" \in DOMAIN r /\ ~r.ok /\ r.e.kind = "Panic"

\* the error of a body that does not parse: it quotes
\* &text[..text.len().min(500)], a slice that panics when its end is inside a
\* character
RawPrefix(text) ==
    IF ~is_char_boundary(text, Min(Bytes(text), DiagPrefix))
    THEN Panic("byte index is not a char boundary")
    ELSE Err([kind |-> "JsonParse", raw |-> Prefix(text, DiagPrefix)])

\* a parse that reads a null pullRequest node as a pull request of defaults
ParseEnvelope_NullNodeAsDefault(body, shape) ==
    IF body.t # "envelope" THEN None
    ELSE IF body.data.t = "value" /\ body.data.v.shape # shape THEN None
    ELSE IF body.data.t = "value" /\ body.data.v = NullNode
    THEN Some([data |-> Some([shape |-> "pr", number |-> 0]),
               errors |-> IF body.errors.t = "list" THEN Some(body.errors.l) ELSE None])
    ELSE Some([data |-> IF body.data.t = "value" THEN Some(body.data.v) ELSE None,
               errors |-> IF body.errors.t = "list" THEN Some(body.errors.l) ELSE None])

\* serde_json::from_str::<GraphQLResponse<T>>: Option fields read a missing
\* or null key as None; a data value of another shape than T fails the
\* parse, and so does a null where T holds a field that is not an Option
\* (RepoData::pull_request)
ParseEnvelope(body, shape) ==
    IF body.t # "envelope" THEN None
    ELSE IF body.data.t = "value" /\ body.data.v.shape # shape THEN None
    ELSE IF body.data.t = "value" /\ body.data.v = NullNode THEN None
    ELSE Some([data |-> IF body.data.t = "value" THEN Some(body.data.v) ELSE None,
               errors |-> IF body.errors.t = "list" THEN Some(body.errors.l) ELSE None])

\* graphql that reports only the first of the upstream errors
graphql_FirstErrorOnly(reply, shape) ==
    IF reply.kind = "sendfail" THEN Err([kind |-> "SendFailed", api |-> "GraphQL"])
    ELSE IF ~is_success(reply.status)
    THEN Err([kind |-> "HttpStatus", api |-> "GraphQL", status |-> reply.status,
              text |-> TextOrDefault(reply.body)])
    ELSE IF reply.body.t = "unreadable" THEN Err([kind |-> "ReadFailed"])
    ELSE LET parsed == ParseEnvelope(reply.body, shape) IN
         IF ~parsed.some
         THEN RawPrefix(RawText(reply.body))
         ELSE IF ~parsed.v.data.some /\ parsed.v.errors.some /\ parsed.v.errors.v # <<>>
         THEN Err([kind |-> "GraphQLErrors", joined |-> Head(parsed.v.errors.v)])
         ELSE IF ~parsed.v.data.some THEN Err([kind |-> "MissingData"])
         ELSE Ok(parsed.v.data.v)

\* graphql that looks at the errors whether or not data is there
graphql_ErrorsBeforeData(reply, shape) ==
    IF reply.kind = "sendfail" THEN Err([kind |-> "SendFailed", api |-> "GraphQL"])
    ELSE IF ~is_success(reply.status)
    THEN Err([kind |-> "HttpStatus", api |-> "GraphQL", status |-> reply.status,
              text |-> TextOrDefault(reply.body)])
    ELSE IF reply.body.t = "unreadable" THEN Err([kind |-> "ReadFailed"])
    ELSE LET parsed == ParseEnvelope(reply.body, shape) IN
         IF ~parsed.some
         THEN RawPrefix(RawText(reply.body))
         ELSE IF parsed.v.errors.some /\ parsed.v.errors.v # <<>>
         THEN Err([kind |-> "GraphQLErrors",
                   joined |-> JoinText(parsed.v.errors.v, Seg(", ", 2))])
         ELSE IF ~parsed.v.data.some THEN Err([kind |-> "MissingData"])
         ELSE Ok(parsed.v.data.v)

\* graphql that quotes only a prefix of the body of a non-2xx reply
graphql_StatusBodyPrefix(reply, shape) ==
    IF reply.kind = "sendfail" THEN Err([kind |-> "SendFailed", api |-> "GraphQL"])
    ELSE IF ~is_success(reply.status)
    THEN Err([kind |-> "HttpStatus", api |-> "GraphQL", status |-> reply.status,
              text |-> Prefix(TextOrDefault(reply.body), DiagPrefix)])
    ELSE IF reply.body.t = "unreadable" THEN Err([kind |-> "ReadFailed"])
    ELSE LET parsed == ParseEnvelope(reply.body, shape) IN
         IF ~parsed.some
         THEN RawPrefix(RawText(reply.body))
         ELSE IF ~parsed.v.data.some /\ parsed.v.errors.some /\ parsed.v.errors.v # <<>>
         THEN Err([kind |-> "GraphQLErrors",
                   joined |-> JoinText(parsed.v.errors.v, Seg(", ", 2))])
         ELSE IF ~parsed.v.data.some THEN Err([kind |-> "MissingData"])
         ELSE Ok(parsed.v.data.v)

\* GitHubClient::graphql, from the reply to the request on
graphql(reply, shape) ==
    IF reply.kind = "sendfail" THEN Err([kind |-> "SendFailed", api |-> "GraphQL"])
    ELSE IF ~is_success(reply.status)
    THEN Err([kind |-> "HttpStatus", api |-> "GraphQL", status |-> reply.status,
              text |-> TextOrDefault(reply.body)])
    ELSE IF reply.body.t = "unreadable" THEN Err([kind |-> "ReadFailed"])
    ELSE LET parsed == ParseEnvelope(reply.body, shape) IN
         IF ~parsed.some
         THEN RawPrefix(RawText(reply.body))
         ELSE IF ~parsed.v.data.some /\ parsed.v.errors.some /\ parsed.v.errors.v # <<>>
         THEN Err([kind |-> "GraphQLErrors",
                   joined |-> JoinText(parsed.v.errors.v, Seg(", ", 2))])
         ELSE IF ~parsed.v.data.some THEN Err([kind |-> "MissingData"])
         ELSE Ok(parsed.v.data.v)

\* GitHubClient::rest_get, from the reply to the request on
rest_get(reply, shape) ==
    IF reply.kind = "sendfail" THEN Err([kind |-> "SendFailed", api |-> "REST"])
    ELSE IF ~is_success(reply.status)
    THEN Err([kind |-> "HttpStatus", api |-> "REST", status |-> reply.status,
              text |-> TextOrDefault(reply.body)])
    ELSE IF reply.body.t = "json" /\ reply.body.v.shape = shape THEN Ok(reply.body.v)
    ELSE Err([kind |-> "RestParse"])

----------------------------------------------------------------------------
(* GitHubClient operations: the requests they send                         *)

\* the queries of get_user: query_with_email selects the email field,
\* query_without_email does not
query_with_email == [op |-> "viewer", email |-> TRUE]
query_without_email == [op |-> "viewer", email |-> FALSE]

\* a POST to the GraphQL endpoint with the bearer header
GraphqlRequest(tok, query) == [api |-> "graphql", bearer |-> tok] @@ query
\* a GET on a REST path with the bearer header
RestRequest(tok, path) == [api |-> "rest", bearer |-> tok, op |-> path]

\* char::to_uppercase on the letters of the ASCII alphabet; every other
\* character explored is left as it is
LowerCase == <<"a", "b", "c", "d", "e", "f", "g", "h", "i", "j", "k", "l", "m",
               "n", "o", "p", "q", "r", "s", "t", "u", "v", "w", "x", "y", "z">>
UpperCase == <<"A", "B", "C", "D", "E", "F", "G", "H", "I", "J", "K", "L", "M",
               "N", "O", "P", "Q", "R", "S", "T", "U", "V", "W", "X", "Y", "Z">>
UpperChar(c) ==
    IF \E i \in DOMAIN LowerCase : LowerCase[i] = c
    THEN UpperCase[CHOOSE i \in DOMAIN LowerCase : LowerCase[i] = c]
    ELSE c

\* str::to_uppercase: the upper case of each character, in order
RECURSIVE to_uppercase(_)
to_uppercase(s) ==
    IF s = "" THEN ""
    ELSE UpperChar(SubSeq(s, 1, 1)) \o to_uppercase(SubSeq(s, 2, Len(s)))

\* the match of list_issues with the MERGED arm of list_prs
IssueStates_Merged(state) ==
    CASE to_uppercase(state) = "OPEN" -> <<"OPEN">>
      [] to_uppercase(state) = "CLOSED" -> <<"CLOSED">>
      [] to_uppercase(state) = "MERGED" -> <<"MERGED">>
      [] to_uppercase(state) = "ALL" -> <<"OPEN", "CLOSED">>
      [] OTHER -> <<"OPEN">>

\* GitHubClient::list_issues, the match on the state
IssueStates(state) ==
    CASE to_uppercase(state) = "OPEN" -> <<"OPEN">>
      [] to_uppercase(state) = "CLOSED" -> <<"CLOSED">>
      [] to_uppercase(state) = "ALL" -> <<"OPEN", "CLOSED">>
      [] OTHER -> <<"OPEN">>
PrStates(state) ==
    CASE to_uppercase(state) = "OPEN" -> <<"OPEN">>
      [] to_uppercase(state) = "CLOSED" -> <<"CLOSED">>
      [] to_uppercase(state) = "MERGED" -> <<"MERGED">>
      [] to_uppercase(state) = "ALL" -> <<"OPEN", "CLOSED", "MERGED">>
      [] OTHER -> <<"OPEN">>

\* a fallback guard that takes every failure for a scope failure
IsScopeError_AnyFailure(e) == TRUE

\* the guard of the fallback arm of get_user
IsScopeError(e) ==
    Contains(Display(e), ScopeEmail) \/ Contains(Display(e), ScopeRead)

\* an operation's next step: it returns r, or it sends req and awaits the reply
Return(r) == [done |-> TRUE, r |-> r]
Send(req) == [done |-> FALSE, req |-> req]

\* GitHubClient::ping
ping(tok, reps) ==
    IF reps = <<>> THEN Send(GraphqlRequest(tok, [op |-> "ping"]))
    ELSE LET result_ == graphql(reps[1], "ping") IN
         IF ~result_.ok THEN Return(result_)
         ELSE Return(Ok(result_.v.login # ""))

User(v) == [login |-> v.login, email |-> v.email]

\* get_user that tries the reduced query once more when it fails
client_get_user_ThirdAttempt(tok, reps) ==
    IF reps = <<>> THEN Send(GraphqlRequest(tok, query_with_email))
    ELSE LET first == graphql(reps[1], "viewer") IN
         IF first.ok THEN Return(Ok(User(first.v)))
         ELSE IF IsPanic(first) THEN Return(first)
         ELSE IF IsScopeError(first.e)
         THEN IF Len(reps) = 1 THEN Send(GraphqlRequest(tok, query_without_email))
              ELSE LET second == graphql(reps[Len(reps)], "viewer") IN
                   IF second.ok THEN Return(Ok(User(second.v)))
                   ELSE IF Len(reps) = 2
                        THEN Send(GraphqlRequest(tok, query_without_email))
                        ELSE Return(second)
         ELSE Return(first)

\* GitHubClient::get_user
client_get_user(tok, reps) ==
    IF reps = <<>> THEN Send(GraphqlRequest(tok, query_with_email))
    ELSE LET first == graphql(reps[1], "viewer") IN
         IF first.ok THEN Return(Ok(User(first.v)))
         ELSE IF IsPanic(first) THEN Return(first)
         ELSE IF IsScopeError(first.e)
         THEN IF Len(reps) = 1 THEN Send(GraphqlRequest(tok, query_without_email))
              ELSE LET second == graphql(reps[2], "viewer") IN
                   IF second.ok THEN Return(Ok(User(second.v))) ELSE Return(second)
         ELSE Return(first)

\* GitHubClient::list_repos
client_list_repos(tok, limit, reps) ==
    IF reps = <<>> THEN Send(GraphqlRequest(tok, [op |-> "repos", first |-> limit]))
    ELSE LET result_ == graphql(reps[1], "repos") IN
         IF ~result_.ok THEN Return(result_) ELSE Return(Ok(result_.v.nodes))

\* GitHubClient::list_issues
client_list_issues(tok, owner, repo, state, limit, reps) ==
    IF reps = <<>>
    THEN Send(GraphqlRequest(tok, [op |-> "issues", owner |-> owner, name |-> repo,
                                   states |-> IssueStates(state), first |-> limit]))
    ELSE LET result_ == graphql(reps[1], "issues") IN
         IF ~result_.ok THEN Return(result_) ELSE Return(Ok(result_.v.nodes))

\* GitHubClient::list_prs
client_list_prs(tok, owner, repo, state, limit, reps) ==
    IF reps = <<>>
    THEN Send(GraphqlRequest(tok, [op |-> "prs", owner |-> owner, name |-> repo,
                                   states |-> PrStates(state), first |-> limit]))
    ELSE LET result_ == graphql(reps[1], "prs") IN
         IF ~result_.ok THEN Return(result_) ELSE Return(Ok(result_.v.nodes))

\* GitHubClient::get_pr
client_get_pr(tok, owner, repo, pr_number, reps) ==
    IF reps = <<>>
    THEN Send(GraphqlRequest(tok, [op |-> "pr", owner |-> owner, name |-> repo,
                                   number |-> pr_number]))
    ELSE LET result_ == graphql(reps[1], "pr") IN
         IF ~result_.ok THEN Return(result_)
         ELSE Return(Ok([number |-> result_.v.number]))

\* GitHubClient::get_notifications
client_get_notifications(tok, reps) ==
    IF reps = <<>> THEN Send(RestRequest(tok, "/notifications"))
    ELSE LET result_ == rest_get(reps[1], "/notifications") IN
         IF ~result_.ok THEN Return(result_) ELSE Return(Ok(result_.v.nodes))

\* GitHubClient::get_repo_id
get_repo_id(tok, owner, repo, reps) ==
    IF reps = <<>>
    THEN Send(GraphqlRequest(tok, [op |-> "repo_id", owner |-> owner, name |-> repo]))
    ELSE LET result_ == graphql(reps[1], "repo_id") IN
         IF ~result_.ok THEN Return(result_) ELSE Return(Ok(result_.v.id))

\* create_issue that sends the mutation whatever the lookup came to
client_create_issue_IgnoresLookup(tok, owner, repo, title, body, reps) ==
    LET repo_id == get_repo_id(tok, owner, repo, reps) IN
    IF ~repo_id.done \/ IsPanic(repo_id.r) THEN repo_id
    ELSE IF Len(reps) = 1
    THEN Send(GraphqlRequest(tok, [op |-> "createIssue",
                                   repositoryId |-> IF repo_id.r.ok THEN repo_id.r.v
                                                    ELSE <<>>,
                                   title |-> title, body |-> body]))
    ELSE LET result_ == graphql(reps[2], "createIssue") IN
         IF ~result_.ok THEN Return(result_)
         ELSE Return(Ok([number |-> result_.v.number, title |-> result_.v.title,
                         labels |-> <<>>, comment_count |-> 0]))

\* GitHubClient::create_issue
client_create_issue(tok, owner, repo, title, body, reps) ==
    LET repo_id == get_repo_id(tok, owner, repo, reps) IN
    IF ~repo_id.done \/ ~repo_id.r.ok THEN repo_id
    ELSE IF Len(reps) = 1
    THEN Send(GraphqlRequest(tok, [op |-> "createIssue", repositoryId |-> repo_id.r.v,
                                   title |-> title, body |-> body]))
    ELSE LET result_ == graphql(reps[2], "createIssue") IN
         IF ~result_.ok THEN Return(result_)
         ELSE Return(Ok([number |-> result_.v.number, title |-> result_.v.title,
                         labels |-> <<>>, comment_count |-> 0]))

----------------------------------------------------------------------------
(* GitHubService: parameter extraction and the method handlers             *)

\* GitHubService::get_str
get_str(p, key) == IF key \in DOMAIN p THEN AsStr(p[key]) ELSE None

\* Value::as_i64
AsI64(value) == IF value.t = "num" THEN Some(value.n) ELSE None

\* a 64-bit integer n, held as its two 32-bit words: lo is the low word read
\* as a signed integer and hi the rest, n = hi * 2^32 + (lo mod 2^32)
I64(hi, lo) == [hi |-> hi, lo |-> lo]
\* the 64-bit integer of a number that fits 32 bits
Small(n) == I64(IF n < 0 THEN -1 ELSE 0, n)

\* `v as i32`: the low 32 bits, read as a signed integer
AsI32(v) == v.lo

\* get_i32 that falls back to 0 whatever the default
get_i32_ZeroDefault(p, key, default) ==
    LET v == IF key \in DOMAIN p THEN AsI64(p[key]) ELSE None
    IN IF v.some THEN AsI32(v.v) ELSE 0

\* get_i32 that takes the default for an integer outside the 32-bit range
get_i32_RangeChecked(p, key, default) ==
    LET v == IF key \in DOMAIN p THEN AsI64(p[key]) ELSE None
    IN IF v.some /\ v.v.hi = (IF v.v.lo < 0 THEN -1 ELSE 0) THEN AsI32(v.v)
       ELSE default

\* GitHubService::get_i32
get_i32(p, key, default) ==
    LET v == IF key \in DOMAIN p THEN AsI64(p[key]) ELSE None
    IN IF v.some THEN AsI32(v.v) ELSE default

UnwrapOr(opt, default) == IF opt.some THEN opt.v ELSE default

\* str::split('/'): the pieces between the separators, empty ones included
RECURSIVE Split(_)
Split(str) ==
    IF str = <<>> THEN << <<>> >>
    ELSE LET rest == Split(Tail(str)) IN
         IF Head(str) = "/" THEN << <<>> >> \o rest
         ELSE << <<Head(str)>> \o Head(rest) >> \o Tail(rest)

\* parse_repo that is content with two segments or more
parse_repo_AtLeastTwo(repo_str) ==
    LET parts == Split(repo_str) IN
    IF Len(parts) < 2 THEN Err([kind |-> "InvalidRepoFormat", repo |-> repo_str])
    ELSE Ok(<<parts[1], parts[2]>>)

\* parse_repo that wants an owner and a name that are not empty
parse_repo_NonEmpty(repo_str) ==
    LET parts == Split(repo_str) IN
    IF Len(parts) # 2 \/ parts[1] = <<>> \/ parts[2] = <<>>
    THEN Err([kind |-> "InvalidRepoFormat", repo |-> repo_str])
    ELSE Ok(<<parts[1], parts[2]>>)

\* GitHubService::parse_repo
parse_repo(repo_str) ==
    LET parts == Split(repo_str) IN
    IF Len(parts) # 2 THEN Err([kind |-> "InvalidRepoFormat", repo |-> repo_str])
    ELSE Ok(<<parts[1], parts[2]>>)

MissingParameter(name) == Err([kind |-> "MissingParameter", name |-> name])

\* `?` on the client's result, then the handler's json!
Map(step, F(_)) ==
    IF step.done /\ step.r.ok THEN Return(Ok(F(step.r.v))) ELSE step

\* a health value whose status is "healthy" whatever the probe says
HealthValue_AlwaysHealthy(ok) ==
    [status |-> "healthy", api_connected |-> ok, version |-> "CARGO_PKG_VERSION"]

\* GitHubService::health
HealthValue(ok) ==
    [status |-> IF ok THEN "healthy" ELSE "unhealthy", api_connected |-> ok,
     version |-> "CARGO_PKG_VERSION"]
health(tok, reps) == Map(ping(tok, reps), HealthValue)

\* GitHubService::get_user
Same(v) == v
service_get_user(tok, reps) == Map(client_get_user(tok, reps), Same)

\* GitHubService::list_repos
ReposValue(repos) == [repos |-> repos, count |-> Len(repos)]
service_list_repos(tok, p, reps) ==
    LET limit == get_i32(p, "limit", 10) IN
    Map(client_list_repos(tok, limit, reps), ReposValue)

\* list_issues that answers with the state in upper case
service_list_issues_EchoesUpper(tok, p, reps) ==
    LET repo_str == get_str(p, "repo") IN
    IF ~repo_str.some THEN Return(MissingParameter("repo"))
    ELSE LET parsed == parse_repo(repo_str.v) IN
    IF ~parsed.ok THEN Return(parsed)
    ELSE LET state == UnwrapOr(get_str(p, "state"), "open")
             limit == get_i32(p, "limit", 10)
             IssuesValue(issues) == [repo |-> repo_str.v, state |-> to_uppercase(state),
                                     issues |-> issues, count |-> Len(issues)]
         IN Map(client_list_issues(tok, parsed.v[1], parsed.v[2], state, limit, reps),
                IssuesValue)

\* GitHubService::list_issues
service_list_issues(tok, p, reps) ==
    LET repo_str == get_str(p, "repo") IN
    IF ~repo_str.some THEN Return(MissingParameter("repo"))
    ELSE LET parsed == parse_repo(repo_str.v) IN
    IF ~parsed.ok THEN Return(parsed)
    ELSE LET state == UnwrapOr(get_str(p, "state"), "open")
             limit == get_i32(p, "limit", 10)
             IssuesValue(issues) == [repo |-> repo_str.v, state |-> state,
                                     issues |-> issues, count |-> Len(issues)]
         IN Map(client_list_issues(tok, parsed.v[1], parsed.v[2], state, limit, reps),
                IssuesValue)

\* GitHubService::list_prs
service_list_prs(tok, p, reps) ==
    LET repo_str == get_str(p, "repo") IN
    IF ~repo_str.some THEN Return(MissingParameter("repo"))
    ELSE LET parsed == parse_repo(repo_str.v) IN
    IF ~parsed.ok THEN Return(parsed)
    ELSE LET state == UnwrapOr(get_str(p, "state"), "open")
             limit == get_i32(p, "limit", 10)
             PrsValue(prs) == [repo |-> repo_str.v, state |-> state,
                               prs |-> prs, count |-> Len(prs)]
         IN Map(client_list_prs(tok, parsed.v[1], parsed.v[2], state, limit, reps),
                PrsValue)

\* GitHubService::get_pr
service_get_pr(tok, p, reps) ==
    LET repo_str == get_str(p, "repo") IN
    IF ~repo_str.some THEN Return(MissingParameter("repo"))
    ELSE LET parsed == parse_repo(repo_str.v) IN
    IF ~parsed.ok THEN Return(parsed)
    ELSE LET number == get_i32(p, "number", 0) IN
    IF number = 0 THEN Return(MissingParameter("number"))
    ELSE Map(client_get_pr(tok, parsed.v[1], parsed.v[2], number, reps), Same)

\* a count of the notifications whether read or not
CountUnread_All(ns) == Len(ns)

\* GitHubService::get_notifications
RECURSIVE CountUnread(_)
CountUnread(ns) ==
    IF ns = <<>> THEN 0
    ELSE (IF Head(ns).unread THEN 1 ELSE 0) + CountUnread(Tail(ns))
NotificationsValue(ns) == [notifications |-> ns, unread_count |-> CountUnread(ns)]
\* get_notifications that answers a failure with an empty list
service_get_notifications_EmptyOnFailure(tok, reps) ==
    LET step == client_get_notifications(tok, reps) IN
    IF step.done /\ ~step.r.ok /\ ~IsPanic(step.r)
    THEN Return(Ok(NotificationsValue(<<>>)))
    ELSE Map(step, NotificationsValue)

service_get_notifications(tok, reps) ==
    Map(client_get_notifications(tok, reps), NotificationsValue)

\* create_issue that looks at the title before the form of the repo
service_create_issue_TitleFirst(tok, p, reps) ==
    LET repo_str == get_str(p, "repo") IN
    IF ~repo_str.some THEN Return(MissingParameter("repo"))
    ELSE LET title == get_str(p, "title") IN
    IF ~title.some THEN Return(MissingParameter("title"))
    ELSE LET parsed == parse_repo(repo_str.v) IN
    IF ~parsed.ok THEN Return(parsed)
    ELSE LET Created(issue) == [created |-> TRUE, issue |-> issue] IN
         Map(client_create_issue(tok, parsed.v[1], parsed.v[2], title.v,
                                 get_str(p, "body"), reps),
             Created)

\* GitHubService::create_issue
CreatedValue(issue) == [created |-> TRUE, issue |-> issue]
service_create_issue(tok, p, reps) ==
    LET repo_str == get_str(p, "repo") IN
    IF ~repo_str.some THEN Return(MissingParameter("repo"))
    ELSE LET parsed == parse_repo(repo_str.v) IN
    IF ~parsed.ok THEN Return(parsed)
    ELSE LET title == get_str(p, "title") IN
    IF ~title.some THEN Return(MissingParameter("title"))
    ELSE Map(client_create_issue(tok, parsed.v[1], parsed.v[2], title.v,
                                 get_str(p, "body"), reps),
             CreatedValue)

\* the match with the alias of pr on the arm of prs
Handler_PrAliasOnPrs(m) ==
    CASE m = "health" -> "health"
      [] m \in {"user", "github.user"} -> "user"
      [] m \in {"repos", "github.repos"} -> "repos"
      [] m \in {"issues", "github.issues"} -> "issues"
      [] m \in {"prs", "github.prs", "github.pr"} -> "prs"
      [] m \in {"pr"} -> "pr"
      [] m \in {"notifications", "github.notifications"} -> "notifications"
      [] m \in {"create_issue", "github.create_issue"} -> "create_issue"
      [] OTHER -> "unknown"

\* the match of GitHubService::dispatch: the handler a method name selects
Handler(m) ==
    CASE m = "health" -> "health"
      [] m \in {"user", "github.user"} -> "user"
      [] m \in {"repos", "github.repos"} -> "repos"
      [] m \in {"issues", "github.issues"} -> "issues"
      [] m \in {"prs", "github.prs"} -> "prs"
      [] m \in {"pr", "github.pr"} -> "pr"
      [] m \in {"notifications", "github.notifications"} -> "notifications"
      [] m \in {"create_issue", "github.create_issue"} -> "create_issue"
      [] OTHER -> "unknown"

\* dispatch that answers a name outside the table with the health handler
dispatch_UnknownAsHealth(tok, m, p, reps) ==
    CASE Handler(m) = "user" -> service_get_user(tok, reps)
      [] Handler(m) = "repos" -> service_list_repos(tok, p, reps)
      [] Handler(m) = "issues" -> service_list_issues(tok, p, reps)
      [] Handler(m) = "prs" -> service_list_prs(tok, p, reps)
      [] Handler(m) = "pr" -> service_get_pr(tok, p, reps)
      [] Handler(m) = "notifications" -> service_get_notifications(tok, reps)
      [] Handler(m) = "create_issue" -> service_create_issue(tok, p, reps)
      [] OTHER -> health(tok, reps)

\* GitHubService::dispatch, as far as the replies received so far take it
dispatch(tok, m, p, reps) ==
    CASE Handler(m) = "health" -> health(tok, reps)
      [] Handler(m) = "user" -> service_get_user(tok, reps)
      [] Handler(m) = "repos" -> service_list_repos(tok, p, reps)
      [] Handler(m) = "issues" -> service_list_issues(tok, p, reps)
      [] Handler(m) = "prs" -> service_list_prs(tok, p, reps)
      [] Handler(m) = "pr" -> service_get_pr(tok, p, reps)
      [] Handler(m) = "notifications" -> service_get_notifications(tok, reps)
      [] Handler(m) = "create_issue" -> service_create_issue(tok, p, reps)
      [] OTHER -> Return(Err([kind |-> "UnknownMethod", name |-> m]))

\* fgp_daemon's ParamInfo and MethodInfo, without the description
ParamInfo(name, param_type, required, default) ==
    [name |-> name, param_type |-> param_type, required |-> required,
     default |-> default]
MethodInfo(name, infos) == [name |-> name, params |-> infos]

\* the entries of issues and of prs
ListParams ==
    <<ParamInfo("repo", "string", TRUE, None),
      ParamInfo("state", "string", FALSE, Some(JStr("open"))),
      ParamInfo("limit", "integer", FALSE, Some(JNum(Small(10))))>>

\* method_list that gives the limit of repos the default 5
method_list_LimitFive ==
    <<MethodInfo("github.user", <<>>),
      MethodInfo("github.repos",
                 <<ParamInfo("limit", "integer", FALSE, Some(JNum(Small(5))))>>),
      MethodInfo("github.issues", ListParams),
      MethodInfo("github.prs", ListParams),
      MethodInfo("github.pr",
                 <<ParamInfo("repo", "string", TRUE, None),
                   ParamInfo("number", "integer", TRUE, None)>>),
      MethodInfo("github.notifications", <<>>),
      MethodInfo("github.create_issue",
                 <<ParamInfo("repo", "string", TRUE, None),
                   ParamInfo("title", "string", TRUE, None),
                   ParamInfo("body", "string", FALSE, None)>>)>>

\* GitHubService::method_list
method_list ==
    <<MethodInfo("github.user", <<>>),
      MethodInfo("github.repos",
                 <<ParamInfo("limit", "integer", FALSE, Some(JNum(Small(10))))>>),
      MethodInfo("github.issues", ListParams),
      MethodInfo("github.prs", ListParams),
      MethodInfo("github.pr",
                 <<ParamInfo("repo", "string", TRUE, None),
                   ParamInfo("number", "integer", TRUE, None)>>),
      MethodInfo("github.notifications", <<>>),
      MethodInfo("github.create_issue",
                 <<ParamInfo("repo", "string", TRUE, None),
                   ParamInfo("title", "string", TRUE, None),
                   ParamInfo("body", "string", FALSE, None)>>)>>

\* on_start that takes an empty login for a failure
on_start_FailsOnEmptyLogin(tok, reps) ==
    LET step == ping(tok, reps) IN
    IF ~step.done THEN step
    ELSE IF step.r.ok /\ step.r.v THEN Return(Ok("unit"))
    ELSE IF step.r.ok THEN Return(Err([kind |-> "EmptyLogin"]))
    ELSE Return(step.r)

\* GitHubService::on_start: the three arms of the match on ping's result
on_start(tok, reps) ==
    LET step == ping(tok, reps) IN
    IF ~step.done THEN step
    ELSE IF step.r.ok THEN Return(Ok("unit"))
    ELSE Return(step.r)

\* fgp_daemon's HealthStatus, as its two constructors fill it
healthy_with_latency(latency) ==
    [ok |-> TRUE, latency_ms |-> Some(latency), message |-> None]
unhealthy(message) ==
    [ok |-> FALSE, latency_ms |-> None, message |-> Some(message)]

\* start.elapsed() in milliseconds
Elapsed == "elapsed"

\* health_check that leaves the map empty when the login is empty
health_check_SkipsEmptyLogin(tok, reps) ==
    LET step == ping(tok, reps) IN
    IF ~step.done \/ IsPanic(step.r) THEN step
    ELSE IF step.r.ok /\ step.r.v
         THEN Return("github_api" :> healthy_with_latency(Elapsed))
    ELSE IF step.r.ok THEN Return(<<>>)
    ELSE Return("github_api" :> unhealthy(Display(step.r.e)))

\* GitHubService::health_check: the map it returns
health_check(tok, reps) ==
    LET step == ping(tok, reps) IN
    IF ~step.done \/ IsPanic(step.r) THEN step
    ELSE IF step.r.ok /\ step.r.v
         THEN Return("github_api" :> healthy_with_latency(Elapsed))
    ELSE IF step.r.ok
         THEN Return("github_api" :> unhealthy(<<Seg("Empty viewer login", 18)>>))
    ELSE Return("github_api" :> unhealthy(Display(step.r.e)))

\* the entry points of FgpService the daemon calls
EntryPoints == {"dispatch", "method_list", "on_start", "health_check"}
Step(c, tok, m, p, reps) ==
    CASE c = "on_start" -> on_start(tok, reps)
      [] c = "health_check" -> health_check(tok, reps)
      [] OTHER -> dispatch(tok, m, p, reps)

----------------------------------------------------------------------------
(* The calls, one at a time (Spec, SpecParams)                             *)

\* bound of the repo strings explored
MaxRepoLen == 3

\* the method names of the RPC table, bare and namespaced, and one outside it
TableMethods ==
    {"health", "user", "repos", "issues", "prs", "pr", "notifications", "create_issue"}
Namespaced(m) == "github." \o m
MethodNames ==
    TableMethods \cup {Namespaced(m) : m \in TableMethods} \cup {"bogus"}

RepoStrings == SeqsUpTo({"a", "/"}, MaxRepoLen)

ParamValues(key) ==
    CASE key = "repo" -> {JNum(Small(1))} \cup {JStr(r) : r \in RepoStrings}
      [] key = "state" -> {JStr("ALL")}
      [] key = "limit" -> {JNum(Small(5))}
      [] key = "number" -> {JNum(Small(0)), JNum(Small(7)), JNum(I64(1, 0)),
                            JStr("7")}
      [] key = "title" -> {JStr("t"), JNum(Small(1))}
      [] key = "body" -> {JStr("b")}

\* all maps that give each key of a set one of its values, or leave it out
RECURSIVE Maps(_)
Maps(keys) ==
    IF keys = {} THEN {<<>>}
    ELSE LET k == CHOOSE x \in keys : TRUE
             rest == Maps(keys \ {k})
         IN rest \cup {(k :> v) @@ m : v \in ParamValues(k), m \in rest}

\* the parameters each handler looks at
ParamKeys(m) ==
    CASE Handler(m) = "repos" -> {"limit"}
      [] Handler(m) \in {"issues", "prs"} -> {"repo", "state", "limit"}
      [] Handler(m) = "pr" -> {"repo", "number"}
      [] Handler(m) = "create_issue" -> {"repo", "title", "body"}
      [] OTHER -> {}

\* the maps a method is called with; a name outside the table is called
\* with the parameters of get_pr
ParamMaps(m) ==
    IF Handler(m) = "unknown" THEN Maps(ParamKeys("pr")) ELSE Maps(ParamKeys(m))

\* where a call stands after a step of its handler: returned, unwound by a
\* panic, or waiting for the reply to the request it sent
Landed(step, requests) ==
    IF step.done /\ IsPanic(step.r)
    THEN [pc |-> "panicked", result |-> [state |-> "none"], sent |-> requests]
    ELSE IF step.done
    THEN [pc |-> "done", result |-> step.r, sent |-> requests]
    ELSE [pc |-> "wait", result |-> [state |-> "none"],
          sent |-> Append(requests, step.req)]

\* the entry point c is called; it runs up to its first request
Begin(c, m, p) ==
    /\ call' = c
    /\ method' = m
    /\ params' = p
    /\ replies' = <<>>
    /\ LET at == Landed(Step(c, token, m, p, <<>>), <<>>) IN
       /\ pc' = at.pc
       /\ result' = at.result
       /\ sent' = at.sent
    /\ UNCHANGED <<codec, environ, home, fs, arg, built, statted, token, threads, earlier>>

\* a caller invokes dispatch(m, p)
Dispatch(m, p) ==
    /\ pc = "idle"
    /\ Begin("dispatch", m, p)

\* the daemon starts the service
OnStart ==
    /\ pc = "idle"
    /\ Begin("on_start", "", <<>>)

\* the daemon asks for the health of the service
HealthCheck ==
    /\ pc = "idle"
    /\ Begin("health_check", "", <<>>)

\* the daemon asks for the catalogue of methods; nothing is sent
MethodList ==
    /\ pc = "idle"
    /\ call' = "method_list"
    /\ pc' = "done"
    /\ result' = method_list
    /\ UNCHANGED <<codec, environ, home, fs, arg, built, statted, token, method, params,
                   sent, replies, threads, earlier>>

\* the end of a call that keeps the replies it got
Reset_KeepsReplies ==
    /\ call' = ""
    /\ pc' = "idle"
    /\ method' = ""
    /\ params' = <<>>
    /\ sent' = <<>>
    /\ replies' = replies
    /\ result' = [state |-> "none"]
    /\ UNCHANGED <<codec, environ, home, fs, arg, built, statted, token, threads>>

\* the call is over and nothing of it is left in the service
Reset ==
    /\ call' = ""
    /\ pc' = "idle"
    /\ method' = ""
    /\ params' = <<>>
    /\ sent' = <<>>
    /\ replies' = <<>>
    /\ result' = [state |-> "none"]
    /\ UNCHANGED <<codec, environ, home, fs, arg, built, statted, token, threads>>

\* the caller takes the result; the service is ready for the next call
Finish ==
    /\ pc = "done"
    /\ Reset
    /\ UNCHANGED earlier

\* Finish, with the way the call ended written into the history
FinishNoted ==
    /\ pc = "done"
    /\ Reset
    /\ earlier' = [method |-> method, ok |-> result.ok]

\* a timeout that never runs out
Timeout_Disarmed ==
    /\ pc = "wait"
    /\ UNCHANGED vars

\* upstream answers the request in flight; the handler runs on from there
Receive(reply) ==
    /\ pc = "wait"
    /\ replies' = Append(replies, reply)
    /\ LET at == Landed(Step(call, token, method, params, Append(replies, reply)),
                        sent) IN
       /\ pc' = at.pc
       /\ result' = at.result
       /\ sent' = at.sent
    /\ UNCHANGED <<codec, environ, home, fs, arg, built, statted, token, call, method,
                   params, threads, earlier>>

IdleCall ==
    /\ call = ""
    /\ pc = "idle"
    /\ method = ""
    /\ params = <<>>
    /\ sent = <<>>
    /\ replies = <<>>
    /\ result = [state |-> "none"]

\* the threads that invoke dispatch at once
Threads == {1, 2}
Fresh == [pc |-> "idle", method |-> "", params |-> <<>>, sent |-> <<>>,
          replies |-> <<>>, result |-> [state |-> "none"]]

InitNew ==
    /\ environ \in {e \in [EnvNames -> {None, Some(""), Some("/xdg"),
                                        Some("tok-GITHUB_TOKEN"), Some("tok-GH_TOKEN")}] :
                      /\ e["GITHUB_TOKEN"] \in EnvTokenValues("GITHUB_TOKEN")
                      /\ e["GH_TOKEN"] \in EnvTokenValues("GH_TOKEN")
                      /\ e["XDG_CONFIG_HOME"] \in XdgValues}
    /\ home \in HomeValues
    /\ fs \in [Paths -> FileStates]
    /\ arg = None
    /\ built = [state |-> "pending"]
    /\ statted = {}
    /\ token = ""
    /\ IdleCall
    /\ threads = [t \in Threads |-> Fresh]
    /\ earlier = [method |-> "", ok |-> TRUE]
    /\ codec = [stage |-> "none"]

NextNew == \E a \in ArgValues, buildOk \in BOOLEAN : New(a, buildOk)

SpecNew == InitNew /\ [][NextNew]_vars

\* the service as main.rs constructs it, GitHubService::new(None), in an
\* environment that supplies a token
Constructed ==
    /\ environ = [n \in EnvNames |->
                    IF n = "GITHUB_TOKEN" THEN Some("tok-GITHUB_TOKEN") ELSE None]
    /\ home = Some("/home/u")
    /\ fs = [p \in Paths |-> FileAbsent]
    /\ arg = None
    /\ built = [state |-> "ok", token |-> NewToken(None, environ, home, fs).r.v]
    /\ statted = {}
    /\ token = built.token
    /\ IdleCall
    /\ threads = [t \in Threads |-> Fresh]
    /\ earlier = [method |-> "", ok |-> TRUE]

Init ==
    /\ Constructed
    /\ codec = [stage |-> "none"]

Next ==
    \/ \E m \in MethodNames : \E p \in ParamMaps(m) : Dispatch(m, p)
    \/ OnStart
    \/ HealthCheck
    \/ MethodList
    \/ /\ pc = "wait"
       /\ \E reply \in Replies(sent[Len(sent)]) : Receive(reply)
    \/ Finish

Spec == Init /\ [][Next]_vars

----------------------------------------------------------------------------
(* The optional parameters and the state token (SpecParams)                *)

\* a JSON number with a fraction, which Value::as_i64 does not read
JFrac == [t |-> "frac"]

\* state tokens: the four the filters know in several letter cases, one the
\* filters do not know, and the empty one
StateTokens ==
    {"open", "OPEN", "Open", "closed", "Closed", "merged", "MERGED",
     "all", "All", "ALL", "bogus", ""}

OptionalValues(key) ==
    CASE key = "repo" -> {JStr(<<"a", "/", "a">>)}
      [] key = "state" -> {JNum(Small(1))} \cup {JStr(tok) : tok \in StateTokens}
      [] key = "limit" -> {JNum(Small(5)), JNum(I64(1, 5)), JStr("5"), JFrac, JNull}
      \* 7, 0, -3, 2^32 and 2^32 - 3
      [] key = "number" -> {JNum(Small(7)), JNum(Small(0)), JNum(Small(-3)),
                            JNum(I64(1, 0)), JNum(I64(0, -3))}
      [] key = "title" -> {JStr("t")}
      [] key = "body" -> {JStr("b"), JNum(Small(1)), JNull}

\* the maps that hold the required keys and give each optional key one of
\* its values or leave it out
RECURSIVE OptionalMaps(_, _)
OptionalMaps(required, optional) ==
    IF required # {}
    THEN LET k == CHOOSE x \in required : TRUE
         IN {(k :> v) @@ m : v \in OptionalValues(k),
                              m \in OptionalMaps(required \ {k}, optional)}
    ELSE IF optional # {}
    THEN LET k == CHOOSE x \in optional : TRUE
             rest == OptionalMaps({}, optional \ {k})
         IN rest \cup {(k :> v) @@ m : v \in OptionalValues(k), m \in rest}
    ELSE {<<>>}

\* the methods that read a parameter with a default, with their required
\* keys
OptionalMethods == {"repos", "issues", "prs", "pr", "create_issue"}
RequiredKeys(m) ==
    CASE m \in {"issues", "prs", "pr"} -> {"repo"}
      [] m = "create_issue" -> {"repo", "title"}
      [] OTHER -> {}

NextParams ==
    \/ \E m \in OptionalMethods :
          \E p \in OptionalMaps(RequiredKeys(m), ParamKeys(m) \ RequiredKeys(m)) :
             Dispatch(m, p)
    \/ /\ pc = "wait"
       /\ \E reply \in Replies(sent[Len(sent)]) : Receive(reply)
    \/ Finish

SpecParams == Init /\ [][NextParams]_vars

----------------------------------------------------------------------------
(* One call after another (SpecLater) and dispatch from several threads at *)
(* once (SpecThreads)                                                      *)

\* the calls made, and the replies upstream gives them
ThreadCalls ==
    {[method |-> "health", params |-> <<>>],
     [method |-> "bogus", params |-> <<>>],
     [method |-> "issues", params |-> <<>>]}
    \cup {[method |-> "pr",
           params |-> ("repo" :> JStr(<<"a", "/", "a">>)) @@ ("number" :> JNum(Small(n)))] :
            n \in {7, 8}}
    \cup {[method |-> "create_issue",
           params |-> ("repo" :> JStr(<<"a", "/", "a">>)) @@ ("title" :> JStr(t))] :
            t \in {"t", "u"}}
ThreadReplies(req) ==
    {SendFailure, [kind |-> "http", status |-> 401, body |-> TextBody(<<>>)]}
    \cup {[kind |-> "http", status |-> 200,
           body |-> [t |-> "envelope", data |-> JValue(v), errors |-> JMissing]] :
            v \in GoodPayloads(req)}

NextLater ==
    \/ \E c \in ThreadCalls : Dispatch(c.method, c.params)
    \/ /\ pc = "wait"
       /\ \E reply \in ThreadReplies(sent[Len(sent)]) : Receive(reply)
    \/ FinishNoted

SpecLater == Init /\ [][NextLater]_vars

\* the call of thread t moves to where a step of its handler takes it
ThreadAt(t, m, p, reps, requests) ==
    LET at == Landed(dispatch(token, m, p, reps), requests) IN
    [threads EXCEPT ![t] = [pc |-> at.pc, method |-> m, params |-> p,
                            sent |-> at.sent, replies |-> reps,
                            result |-> at.result]]

\* dispatch behind a lock: a thread waits until no other call is under way
ThreadDispatch_Queued(t, m, p) ==
    /\ \A u \in Threads : threads[u].pc = "idle"
    /\ threads' = ThreadAt(t, m, p, <<>>, <<>>)
    /\ UNCHANGED <<codec, environ, home, fs, arg, built, statted, token,
                   call, pc, method, params, sent, replies, result, earlier>>

\* thread t invokes dispatch(m, p): block_on polls the handler's future up
\* to its first request; nothing is asked of the other threads
ThreadDispatch(t, m, p) ==
    /\ threads[t].pc = "idle"
    /\ threads' = ThreadAt(t, m, p, <<>>, <<>>)
    /\ UNCHANGED <<codec, environ, home, fs, arg, built, statted, token,
                   call, pc, method, params, sent, replies, result, earlier>>

\* upstream answers the request thread t has in flight; its future runs on
ThreadReceive(t, reply) ==
    /\ threads[t].pc = "wait"
    /\ threads' = ThreadAt(t, threads[t].method, threads[t].params,
                           Append(threads[t].replies, reply), threads[t].sent)
    /\ UNCHANGED <<codec, environ, home, fs, arg, built, statted, token,
                   call, pc, method, params, sent, replies, result, earlier>>

\* block_on returns in thread t and its caller takes the result
ThreadFinish(t) ==
    /\ threads[t].pc = "done"
    /\ threads' = [threads EXCEPT ![t] = Fresh]
    /\ UNCHANGED <<codec, environ, home, fs, arg, built, statted, token,
                   call, pc, method, params, sent, replies, result, earlier>>

NextThreads ==
    \/ \E t \in Threads : \E c \in ThreadCalls : ThreadDispatch(t, c.method, c.params)
    \/ \E t \in Threads :
          /\ threads[t].pc = "wait"
          /\ \E reply \in ThreadReplies(threads[t].sent[Len(threads[t].sent)]) :
                ThreadReceive(t, reply)
    \/ \E t \in Threads : ThreadFinish(t)

SpecThreads == Init /\ [][NextThreads]_vars

----------------------------------------------------------------------------
(* The lists upstream returns (SpecLists)                                  *)

\* bound of the number of items upstream holds
MaxItems == 5

\* what upstream holds: the issues or pull requests of a repository by
\* their states, the repositories of the viewer, and the notifications by
\* their unread flags
Held(req) ==
    CASE req.op = "issues" -> SeqsUpTo({"OPEN", "CLOSED"}, MaxItems)
      [] req.op = "prs" -> SeqsUpTo({"OPEN", "MERGED"}, MaxItems)
      [] req.op = "/notifications" -> SeqsUpTo({TRUE, FALSE}, MaxItems)
      [] OTHER -> SeqsUpTo({"repo"}, MaxItems)

\* the first n elements of a sequence
Take(seq, n) == SubSeq(seq, 1, Min(Len(seq), IF n < 0 THEN 0 ELSE n))

\* the nodes upstream answers with: of what it holds, the items in one of
\* the states asked for, and no more of them than the page size asked for
Answer(held, req) ==
    LET node(i) ==
            CASE req.op \in {"issues", "prs"} -> [number |-> i, state |-> held[i]]
              [] req.op = "/notifications" -> [id |-> i, unread |-> held[i]]
              [] OTHER -> [name |-> i]
        all == [i \in DOMAIN held |-> node(i)]
        InStates(n) == \E k \in DOMAIN req.states : req.states[k] = n.state
    IN CASE req.op \in {"issues", "prs"} -> Take(SelectSeq(all, InStates), req.first)
         [] req.op = "repos" -> Take(all, req.first)
         [] OTHER -> all

\* the reply that carries the nodes
ListReply(req, nodes) ==
    [kind |-> "http", status |-> 200,
     body |-> IF req.api = "rest" THEN JsonBody([shape |-> req.op, nodes |-> nodes])
              ELSE [t |-> "envelope", data |-> JValue([shape |-> req.op, nodes |-> nodes]),
                    errors |-> JMissing]]
ListReplies(req) ==
    {SendFailure} \cup {ListReply(req, Answer(held, req)) : held \in Held(req)}

\* the calls that return a list
ListCalls ==
    {[method |-> "notifications", params |-> <<>>]}
    \cup {[method |-> "repos", params |-> p] :
            p \in {<<>>, "limit" :> JNum(Small(2))}}
    \cup {[method |-> m,
           params |-> ("repo" :> JStr(<<"a", "/", "a">>)) @@ ("state" :> JStr(st))
                      @@ ("limit" :> JNum(Small(n)))] :
            m \in {"issues", "prs"}, st \in {"all", "closed"}, n \in {2, 5}}

NextLists ==
    \/ \E c \in ListCalls : Dispatch(c.method, c.params)
    \/ /\ pc = "wait"
       /\ \E reply \in ListReplies(sent[Len(sent)]) : Receive(reply)
    \/ Finish

SpecLists == Init /\ [][NextLists]_vars

----------------------------------------------------------------------------
(* The records of models.rs through serde (SpecModels)                     *)

\* bound of the lists a record holds
MaxList == 2

\* the fields of each struct, in order, with their types
Fields(kind) ==
    CASE kind = "User" ->
            << <<"login", "String">>, <<"name", "Option<String>">>,
               <<"email", "Option<String>">>, <<"avatar_url", "String">>,
               <<"bio", "Option<String>">>, <<"company", "Option<String>">>,
               <<"location", "Option<String>">>, <<"website_url", "Option<String>">>,
               <<"twitter_username", "Option<String>">>, <<"public_repos", "i32">>,
               <<"followers", "i32">>, <<"following", "i32">>,
               <<"created_at", "String">> >>
      [] kind = "Repository" ->
            << <<"name", "String">>, <<"full_name", "String">>,
               <<"description", "Option<String>">>, <<"url", "String">>,
               <<"is_private", "bool">>, <<"is_fork", "bool">>, <<"stars", "i32">>,
               <<"forks", "i32">>, <<"language", "Option<String>">>,
               <<"updated_at", "String">>, <<"pushed_at", "Option<String>">> >>
      [] kind = "Issue" ->
            << <<"number", "i32">>, <<"title", "String">>, <<"state", "String">>,
               <<"url", "String">>, <<"created_at", "String">>,
               <<"updated_at", "String">>, <<"author", "Option<String>">>,
               <<"labels", "Vec<String>">>, <<"comment_count", "i32">> >>
      [] kind = "PullRequest" ->
            << <<"number", "i32">>, <<"title", "String">>, <<"state", "String">>,
               <<"url", "String">>, <<"is_draft", "bool">>, <<"mergeable", "String">>,
               <<"created_at", "String">>, <<"updated_at", "String">>,
               <<"author", "Option<String>">>, <<"head_branch", "String">>,
               <<"base_branch", "String">>, <<"additions", "i32">>,
               <<"deletions", "i32">>, <<"changed_files", "i32">>,
               <<"commit_count", "i32">>, <<"comment_count", "i32">>,
               <<"reviews", "Vec<Review>">> >>
      [] kind = "Review" ->
            << <<"author", "Option<String>">>, <<"state", "String">>,
               <<"submitted_at", "Option<String>">> >>
      [] kind = "Notification" ->
            << <<"id", "String">>, <<"unread", "bool">>, <<"reason", "String">>,
               <<"subject_title", "String">>, <<"subject_type", "String">>,
               <<"subject_url", "Option<String>">>, <<"repo_full_name", "String">>,
               <<"updated_at", "String">> >>
FieldNames(kind) == {Fields(kind)[i][1] : i \in DOMAIN Fields(kind)}
FieldType(kind, name) ==
    Fields(kind)[CHOOSE i \in DOMAIN Fields(kind) : Fields(kind)[i][1] = name][2]

\* derive(Serialize): a struct is written as an object with one key for
\* each field, under the field's name; None is written as null
RECURSIVE to_value(_, _)
RECURSIVE EncodeField(_, _)
EncodeField(ty, x) ==
    CASE ty = "String" -> JStr(x)
      [] ty = "Option<String>" -> IF x.some THEN JStr(x.v) ELSE JNull
      [] ty = "i32" -> JNum(Small(x))
      [] ty = "bool" -> JBool(x)
      [] ty = "Vec<String>" -> JList([i \in DOMAIN x |-> JStr(x[i])])
      [] ty = "Vec<Review>" -> JList([i \in DOMAIN x |-> to_value("Review", x[i])])
to_value(kind, rec) ==
    JObj([name \in FieldNames(kind) |-> EncodeField(FieldType(kind, name), rec[name])])

InvalidType == Err([kind |-> "InvalidType"])

\* derive(Deserialize) that reads an empty string of an Option as None
RECURSIVE from_value(_, _)
RECURSIVE DecodeField(_, _)
DecodeField_EmptyAsNone(ty, v) ==
    CASE ty = "String" -> IF v.some /\ v.v.t = "str" THEN Ok(v.v.s) ELSE InvalidType
      [] ty = "Option<String>" ->
            IF ~v.some \/ v.v.t = "null" THEN Ok(None)
            ELSE IF v.v.t = "str" THEN Ok(IF v.v.s = "" THEN None ELSE Some(v.v.s))
            ELSE InvalidType
      [] ty = "i32" ->
            IF v.some /\ v.v.t = "num" /\ v.v.n = Small(v.v.n.lo) THEN Ok(v.v.n.lo)
            ELSE InvalidType
      [] ty = "bool" -> IF v.some /\ v.v.t = "bool" THEN Ok(v.v.b) ELSE InvalidType
      [] ty = "Vec<String>" ->
            IF v.some /\ v.v.t = "list" /\ \A i \in DOMAIN v.v.l : v.v.l[i].t = "str"
            THEN Ok([i \in DOMAIN v.v.l |-> v.v.l[i].s])
            ELSE InvalidType
      [] ty = "Vec<Review>" ->
            IF /\ v.some /\ v.v.t = "list"
               /\ \A i \in DOMAIN v.v.l : from_value("Review", v.v.l[i]).ok
            THEN Ok([i \in DOMAIN v.v.l |-> from_value("Review", v.v.l[i]).v])
            ELSE InvalidType

\* derive(Deserialize): each field is read from the key of its name; a
\* String, an i32, a bool and a Vec want a value of their JSON type (an i32
\* one inside its range), an Option reads a missing key and null as None
DecodeField(ty, v) ==
    CASE ty = "String" -> IF v.some /\ v.v.t = "str" THEN Ok(v.v.s) ELSE InvalidType
      [] ty = "Option<String>" ->
            IF ~v.some \/ v.v.t = "null" THEN Ok(None)
            ELSE IF v.v.t = "str" THEN Ok(Some(v.v.s))
            ELSE InvalidType
      [] ty = "i32" ->
            IF v.some /\ v.v.t = "num" /\ v.v.n = Small(v.v.n.lo) THEN Ok(v.v.n.lo)
            ELSE InvalidType
      [] ty = "bool" -> IF v.some /\ v.v.t = "bool" THEN Ok(v.v.b) ELSE InvalidType
      [] ty = "Vec<String>" ->
            IF v.some /\ v.v.t = "list" /\ \A i \in DOMAIN v.v.l : v.v.l[i].t = "str"
            THEN Ok([i \in DOMAIN v.v.l |-> v.v.l[i].s])
            ELSE InvalidType
      [] ty = "Vec<Review>" ->
            IF /\ v.some /\ v.v.t = "list"
               /\ \A i \in DOMAIN v.v.l : from_value("Review", v.v.l[i]).ok
            THEN Ok([i \in DOMAIN v.v.l |-> from_value("Review", v.v.l[i]).v])
            ELSE InvalidType
from_value(kind, value) ==
    IF value.t # "obj" THEN InvalidType
    ELSE LET read == [name \in FieldNames(kind) |->
                         DecodeField(FieldType(kind, name), ValueGet(value, name))]
         IN IF \E name \in FieldNames(kind) : ~read[name].ok THEN InvalidType
            ELSE Ok([name \in FieldNames(kind) |-> read[name].v])

\* the records explored: of each struct, one with every field set, varied in
\* its optional fields, its numbers, its flags and its lists
Options == {None, Some(""), Some("x")}
Reviews ==
    {[author |-> a, state |-> "APPROVED", submitted_at |-> at] :
        a \in {None, Some("x")}, at \in {None, Some("2024")}}
Records(kind) ==
    CASE kind = "User" ->
            {[login |-> "octocat", name |-> n, email |-> e, avatar_url |-> "",
              bio |-> None, company |-> Some("x"), location |-> None,
              website_url |-> None, twitter_username |-> None,
              public_repos |-> k, followers |-> 0, following |-> 7,
              created_at |-> "2008"] :
                n \in Options, e \in Options, k \in {0, 7, -1}}
      [] kind = "Repository" ->
            {[name |-> "r", full_name |-> "o/r", description |-> d, url |-> "",
              is_private |-> b, is_fork |-> FALSE, stars |-> k, forks |-> 0,
              language |-> Some("Rust"), updated_at |-> "2024", pushed_at |-> None] :
                d \in Options, b \in BOOLEAN, k \in {0, 7}}
      [] kind = "Issue" ->
            {[number |-> 7, title |-> "", state |-> "OPEN", url |-> "u",
              created_at |-> "2024", updated_at |-> "2024", author |-> a,
              labels |-> l, comment_count |-> 0] :
                a \in Options, l \in SeqsUpTo({"bug", "ui"}, MaxList)}
      [] kind = "PullRequest" ->
            {[number |-> 7, title |-> "t", state |-> "OPEN", url |-> "u",
              is_draft |-> b, mergeable |-> "UNKNOWN", created_at |-> "2024",
              updated_at |-> "2024", author |-> None, head_branch |-> "h",
              base_branch |-> "main", additions |-> 1, deletions |-> 0,
              changed_files |-> 1, commit_count |-> 1, comment_count |-> 0,
              reviews |-> r] :
                b \in BOOLEAN, r \in SeqsUpTo(Reviews, MaxList)}
      [] kind = "Notification" ->
            {[id |-> "1", unread |-> b, reason |-> "mention", subject_title |-> "t",
              subject_type |-> "Issue", subject_url |-> u, repo_full_name |-> "o/r",
              updated_at |-> "2024"] :
                b \in BOOLEAN, u \in Options}
Kinds == {"User", "Repository", "Issue", "PullRequest", "Notification"}

\* a record is serialized
Serialize ==
    /\ codec.stage = "record"
    /\ codec' = [stage |-> "value", kind |-> codec.kind, record |-> codec.record,
                 value |-> to_value(codec.kind, codec.record)]
    /\ UNCHANGED <<environ, home, fs, arg, built, statted, token, call, pc, method,
                   params, sent, replies, result, threads, earlier>>

\* what was serialized is read back
Deserialize ==
    /\ codec.stage = "value"
    /\ codec' = [stage |-> "back", kind |-> codec.kind, record |-> codec.record,
                 value |-> codec.value, back |-> from_value(codec.kind, codec.value)]
    /\ UNCHANGED <<environ, home, fs, arg, built, statted, token, call, pc, method,
                   params, sent, replies, result, threads, earlier>>

InitModels ==
    /\ Constructed
    /\ codec \in {[stage |-> "record", kind |-> k, record |-> r] :
                    k \in Kinds, r \in UNION {Records(j) : j \in Kinds}}
    /\ codec.record \in Records(codec.kind)

NextModels == Serialize \/ Deserialize

SpecModels == InitModels /\ [][NextModels]_vars

----------------------------------------------------------------------------
(* Requests that get no answer (SpecLive)                                  *)

\* Client::builder().timeout(..): the seconds a request may take, from its
\* start to the end of the response body
RequestTimeout == 30

\* what a request comes to when the timeout ends it: a failure to send when
\* no response had come, a body that cannot be read when one had
TimedOut == [kind |-> "sendfail", after |-> RequestTimeout]
TimeoutReplies ==
    {TimedOut} \cup {[kind |-> "http", status |-> st, body |-> Unreadable] :
                        st \in Statuses}

\* the timeout of the request in flight runs out
Timeout ==
    /\ pc = "wait"
    /\ \E reply \in TimeoutReplies : Receive(reply)

\* the calls made: every method name, with the parameters its handler
\* wants
LiveCalls ==
    {[method |-> m,
      params |-> IF ParamKeys(m) = {} THEN <<>>
                 ELSE ("repo" :> JStr(<<"a", "/", "a">>))
                      @@ ("number" :> JNum(Small(7))) @@ ("title" :> JStr("t"))] :
        m \in MethodNames}

\* the replies upstream gives them: those of ThreadReplies, an envelope
\* that names a missing scope, and a body that makes graphql panic
LiveReplies(req) ==
    ThreadReplies(req)
    \cup {[kind |-> "http", status |-> 200,
           body |-> [t |-> "envelope", data |-> JNull,
                     errors |-> JList(<< <<ScopeRead>> >>)]],
          [kind |-> "http", status |-> 200, body |-> TextBody(<<Pad, Pad, Wide>>)]}

\* upstream may answer a request or not; the timeout is a timer of the
\* runtime block_on drives, so it runs out when nothing else ends the request
NextLive ==
    \/ \E c \in LiveCalls : Dispatch(c.method, c.params)
    \/ /\ pc = "wait"
       /\ \E reply \in LiveReplies(sent[Len(sent)]) : Receive(reply)
    \/ Timeout
    \/ Finish

SpecLive == Init /\ [][NextLive]_vars /\ WF_vars(Timeout)

----------------------------------------------------------------------------
(* Properties                                                              *)

\* the reply the call received last, and the request it answers
LastReply == replies[Len(replies)]
LastRequest == sent[Len(replies)]

\* what the i-th request of the call came to, given its reply
Attempt(i) ==
    IF sent[i].api = "rest" THEN rest_get(replies[i], sent[i].op)
    ELSE graphql(replies[i], sent[i].op)

HasScopeIndicator(e) ==
    \E i \in DOMAIN Display(e) : Display(e)[i].s \in {"user:email", "read:user"}

IsHttp2xx(reply) == reply.kind = "http" /\ reply.status \in 200..299

\* C1: get_user first sends the full viewer query; a first failure whose
\* message holds a missing-scope indicator is followed by exactly one query
\* without the email field, whose success gives a User without email; any
\* other first failure is returned as it is, and neither it nor a first
\* success is followed by a second request.  (A reply that makes graphql
\* panic returns nothing; it is followed by no request either.)
C1_ScopeFallback ==
    (Handler(method) = "user") =>
        /\ sent # <<>>
        /\ sent[1].api = "graphql" /\ sent[1].op = "viewer" /\ sent[1].email
        /\ Len(sent) <= 2
        /\ Len(sent) = 2 =>
              /\ sent[2].api = "graphql" /\ sent[2].op = "viewer" /\ ~sent[2].email
              /\ ~Attempt(1).ok /\ HasScopeIndicator(Attempt(1).e)
        /\ replies # <<>> =>
              IF Attempt(1).ok
              THEN Len(sent) = 1 /\ pc = "done" /\ result.ok
              ELSE IF HasScopeIndicator(Attempt(1).e)
              THEN /\ Len(sent) = 2
                   /\ (Len(replies) = 2 /\ Attempt(2).ok) =>
                         pc = "done" /\ result.ok /\ result.v.email = None
              ELSE IF IsPanic(Attempt(1)) THEN Len(sent) = 1 /\ pc = "panicked"
              ELSE Len(sent) = 1 /\ pc = "done" /\ result = Attempt(1)

C1_Witness ==
    /\ Handler(method) = "user" /\ pc = "done"
    /\ Len(sent) = 2 /\ Len(replies) = 2
    /\ ~Attempt(1).ok /\ HasScopeIndicator(Attempt(1).e)
    /\ result.ok /\ result.v.email = None

\* C2: a request is sent after a failed one only by get_user, and only once:
\* health, repos, issues, prs, pr and notifications send at most one request
\* per call, user at most two, and a failure the second query of user
\* returns is what the caller gets.
C2_NoRetry ==
    /\ Handler(method) \in {"health", "repos", "issues", "prs", "pr", "notifications"}
          => Len(sent) <= 1
    /\ Handler(method) = "user" => Len(sent) <= 2
    /\ \A i \in 1..Len(replies) :
          (i < Len(sent) /\ ~Attempt(i).ok) => (Handler(method) = "user" /\ i = 1)
    /\ (Handler(method) = "user" /\ Len(replies) = 2 /\ ~Attempt(2).ok
            /\ ~IsPanic(Attempt(2)))
          => (pc = "done" /\ Len(sent) = 2 /\ result = Attempt(2))

C2_Witness ==
    /\ Handler(method) = "user" /\ pc = "done"
    /\ Len(replies) = 2 /\ Len(sent) = 2
    /\ ~Attempt(2).ok /\ result = Attempt(2)

\* the messages of an error list, one after the other
RECURSIVE Concat(_)
Concat(texts) == IF texts = <<>> THEN <<>> ELSE Head(texts) \o Concat(Tail(texts))

IsSeparator(seg) == seg = Seg(", ", 2)
NotSeparator(seg) == ~IsSeparator(seg)

\* the fields of an envelope as the client reads them
DataPresent(body) == body.data.t = "value"
ErrorsOf(body) == IF body.errors.t = "list" THEN body.errors.l ELSE <<>>

\* a 2xx reply to a GraphQL request whose body parses as an envelope
EnvelopeReply ==
    /\ call = "dispatch"
    /\ replies # <<>>
    /\ LastRequest.api = "graphql"
    /\ IsHttp2xx(LastReply)
    /\ LastReply.body.t = "envelope"
    /\ DataPresent(LastReply.body) =>
          /\ LastReply.body.data.v.shape = LastRequest.op
          /\ LastReply.body.data.v # NullNode

\* C3: a 2xx envelope without data fails the call: with the upstream error
\* messages, all of them and in upstream order, when the error list is not
\* empty, and as a response without data otherwise.
C3_ErrorsWithoutData ==
    (pc = "done" /\ EnvelopeReply /\ ~DataPresent(LastReply.body)) =>
        /\ ~result.ok
        /\ IF ErrorsOf(LastReply.body) # <<>>
           THEN /\ result.e.kind = "GraphQLErrors"
                /\ SelectSeq(result.e.joined, NotSeparator)
                      = Concat(ErrorsOf(LastReply.body))
                /\ Len(SelectSeq(result.e.joined, IsSeparator))
                      = Len(ErrorsOf(LastReply.body)) - 1
           ELSE result.e.kind = "MissingData"

C3_Witness ==
    /\ pc = "done" /\ EnvelopeReply
    /\ LastReply.body.data.t = "null"
    /\ Len(ErrorsOf(LastReply.body)) = 2
    /\ ErrorsOf(LastReply.body)[1] # ErrorsOf(LastReply.body)[2]
    /\ ~result.ok /\ result.e.kind = "GraphQLErrors"

\* C4 as stated: an envelope graphql accepts has exactly one of data and a
\* non-empty error list.
C4_ExactlyOne ==
    (pc = "done" /\ EnvelopeReply /\ result.ok) =>
        (DataPresent(LastReply.body) # (ErrorsOf(LastReply.body) # <<>>))

\* C4, amended: an envelope graphql accepts has data; one with data is
\* accepted whether or not it has errors too, and one with neither data nor
\* errors fails.
C4_DataDecides ==
    (pc = "done" /\ EnvelopeReply) =>
        /\ result.ok <=> DataPresent(LastReply.body)
        /\ (~DataPresent(LastReply.body) /\ ErrorsOf(LastReply.body) = <<>>)
              => (~result.ok /\ result.e.kind = "MissingData")

C4_Witness ==
    /\ pc = "done" /\ EnvelopeReply /\ result.ok
    /\ DataPresent(LastReply.body)
    /\ ErrorsOf(LastReply.body) # <<>>

\* a reply with a status outside 2xx
StatusReply ==
    /\ call = "dispatch"
    /\ replies # <<>>
    /\ LastReply.kind = "http"
    /\ LastReply.status \notin 200..299

ApiName(req) == IF req.api = "rest" THEN "REST" ELSE "GraphQL"

\* C5 as stated: a non-2xx reply fails the call with the status and the body
\* cut to a bounded length.
C5_BodyTruncated ==
    (pc = "done" /\ StatusReply) =>
        /\ ~result.ok /\ result.e.kind = "HttpStatus"
        /\ result.e.status = LastReply.status
        /\ Bytes(result.e.text) <= DiagPrefix

\* C5, amended: a non-2xx reply fails the call, on both paths, with the
\* status and the whole body (nothing when the body cannot be read),
\* whatever the body holds.
C5_BodyInFull ==
    (pc = "done" /\ StatusReply) =>
        /\ ~result.ok /\ result.e.kind = "HttpStatus"
        /\ result.e.api = ApiName(LastRequest)
        /\ result.e.status = LastReply.status
        /\ result.e.text = IF LastReply.body.t = "unreadable" THEN <<>>
                           ELSE RawText(LastReply.body)

C5_Witness ==
    /\ pc = "done" /\ StatusReply
    /\ LastRequest.api = "graphql"
    /\ LastReply.body.t = "text"
    /\ Bytes(LastReply.body.text) > DiagPrefix
    /\ ~result.ok /\ result.e.text = LastReply.body.text

\* whether an environment variable supplies a token
Supplies(value) == value.some /\ value.v # ""

\* GitHubClient::new came to the token tok, from a source before the file
TookBeforeFile(tok) ==
    /\ statted = {}
    /\ built.state = "ok" => built.token = tok
    /\ built.state = "err" => built.e.kind = "BuildFailed"

\* the string under github.com / oauth_token of a document, if there is one
HasOauthToken(doc) ==
    /\ doc.t = "obj" /\ "github.com" \in DOMAIN doc.o
    /\ doc.o["github.com"].t = "obj"
    /\ "oauth_token" \in DOMAIN doc.o["github.com"].o
    /\ doc.o["github.com"].o["oauth_token"].t = "str"
OauthToken(doc) == doc.o["github.com"].o["oauth_token"].s

C7_TokenNotEmpty == (built.state = "ok") => (built.token # "")

\* resolution went as far as the config file
ReachedFile ==
    /\ built.state # "pending"
    /\ ~arg.some
    /\ ~Supplies(environ["GITHUB_TOKEN"])
    /\ ~Supplies(environ["GH_TOKEN"])

\* the one path the config file is looked for at
ExpectedPath ==
    IF environ["XDG_CONFIG_HOME"].some
    THEN PathFrom(environ["XDG_CONFIG_HOME"].v) \o <<"gh", "hosts.yml">>
    ELSE PathFrom(home.v) \o <<".config", "gh", "hosts.yml">>

\* C8: the config file is looked for at one path, under XDG_CONFIG_HOME when
\* that is set and under the home directory otherwise; a file that is not
\* there, a file that does not parse and a file without a string oauth_token
\* for github.com each fail the construction, each with its own error.
C8_FileFailures ==
    (ReachedFile /\ (environ["XDG_CONFIG_HOME"].some \/ home.some)) =>
        LET file == fs[ExpectedPath] IN
        /\ statted = {ExpectedPath}
        /\ ~file.exists =>
              /\ built.state = "err" /\ built.e.kind = "NoTokenFound"
              /\ built.e.path = ExpectedPath
        /\ (file.exists /\ file.readable /\ ~file.yaml.some) =>
              built.state = "err" /\ built.e.kind = "ParseFailed"
        /\ (file.exists /\ file.readable /\ file.yaml.some
                /\ ~HasOauthToken(file.yaml.v)) =>
              /\ built.state = "err" /\ built.e.kind = "NoOauthToken"
              /\ built.e.host = "github.com"

C8_Witness ==
    /\ ReachedFile
    /\ environ["XDG_CONFIG_HOME"] = Some("/xdg")
    /\ home.some
    /\ fs[ExpectedPath] = FileCorrupt
    /\ \E path \in Paths \ {ExpectedPath} :
          /\ fs[path].exists /\ fs[path].readable /\ fs[path].yaml.some
          /\ HasOauthToken(fs[path].yaml.v)
    /\ built.state = "err" /\ built.e.kind = "ParseFailed"

\* the other name of a method of the table
OtherName(m) == IF m \in TableMethods THEN Namespaced(m) ELSE SubSeq(m, 8, Len(m))

IsUnknownMethod(r) == ~r.ok /\ r.e.kind = "UnknownMethod"

\* where the call stands is where dispatch under the name m would stand,
\* given the same parameters and the same replies
SameUnder(m) ==
    LET step == dispatch(token, m, params, replies) IN
    /\ pc = "done" => (step.done /\ step.r = result)
    /\ pc = "wait" => (~step.done /\ step.req = sent[Len(sent)])

\* C9 as stated: no method of the table is rejected as unknown, under its
\* bare name or under its namespaced one.
C9_EveryAlias ==
    (pc = "done" /\ method \in TableMethods \cup {Namespaced(m) : m \in TableMethods})
        => ~IsUnknownMethod(result)

\* C9, amended: every method of the table but health answers to its
\* namespaced name as it does to its bare one; github.health is an unknown
\* method.
C9_AliasesButHealth ==
    /\ (pc # "idle" /\ Handler(method) \notin {"health", "unknown"}) =>
          /\ SameUnder(OtherName(method))
          /\ pc = "done" => ~IsUnknownMethod(result)
    /\ (pc # "idle" /\ method = "github.health") =>
          (pc = "done" /\ sent = <<>> /\ IsUnknownMethod(result))

C9_Witness ==
    /\ pc = "done" /\ method = "github.pr" /\ result.ok
    /\ dispatch(token, "pr", params, replies).r = result

\* the number of separators of a repo string
Separators(str) == Cardinality({i \in DOMAIN str : str[i] = "/"})

\* C10: issues, prs, pr and create_issue reject a repo string without
\* separator or with more than one, before anything is sent.
C10_InvalidRepoFormat ==
    (/\ pc # "idle"
     /\ Handler(method) \in {"issues", "prs", "pr", "create_issue"}
     /\ "repo" \in DOMAIN params
     /\ params["repo"].t = "str"
     /\ Separators(params["repo"].s) # 1) =>
        /\ pc = "done"
        /\ sent = <<>>
        /\ ~result.ok /\ result.e.kind = "InvalidRepoFormat"
        /\ result.e.repo = params["repo"].s

C10_Witness ==
    /\ pc = "done" /\ Handler(method) = "pr"
    /\ "repo" \in DOMAIN params /\ params["repo"].t = "str"
    /\ Separators(params["repo"].s) = 2
    /\ "number" \in DOMAIN params /\ params["number"] = JNum(Small(7))
    /\ ~result.ok /\ result.e.kind = "InvalidRepoFormat"

\* a parameter that is there with the JSON type asked for
HasStr(p, key) == key \in DOMAIN p /\ p[key].t = "str"
HasInt(p, key) == key \in DOMAIN p /\ p[key].t = "num"

\* the call was refused for the parameter name, before anything was sent
RefusedFor(name) ==
    /\ pc = "done"
    /\ sent = <<>>
    /\ result = Err([kind |-> "MissingParameter", name |-> name])

\* the call was refused for the form of its repo string, before anything was
\* sent
RefusedRepoFormat ==
    /\ pc = "done"
    /\ sent = <<>>
    /\ ~result.ok /\ result.e.kind = "InvalidRepoFormat"

\* C11: issues, prs, pr and create_issue check their required parameters in
\* a fixed order, and the first check that fails decides the error: repo
\* missing or not a string, then repo badly formed, then (create_issue) title
\* missing or not a string and (pr) number missing or not an integer.  None
\* of these calls sends a request.
C11_ValidationOrder ==
    (/\ call = "dispatch" /\ pc # "idle"
     /\ Handler(method) \in {"issues", "prs", "pr", "create_issue"}) =>
        IF ~HasStr(params, "repo") THEN RefusedFor("repo")
        ELSE IF Separators(params["repo"].s) # 1 THEN RefusedRepoFormat
        ELSE IF Handler(method) = "create_issue" /\ ~HasStr(params, "title")
        THEN RefusedFor("title")
        ELSE IF Handler(method) = "pr" /\ ~HasInt(params, "number")
        THEN RefusedFor("number")
        ELSE TRUE

C11_Witness ==
    /\ call = "dispatch" /\ Handler(method) = "create_issue"
    /\ HasStr(params, "repo") /\ Separators(params["repo"].s) = 1
    /\ "title" \in DOMAIN params /\ params["title"].t = "num"
    /\ RefusedFor("title")

\* all required parameters of the call are there and well formed
RequiredGiven ==
    /\ call = "dispatch"
    /\ Handler(method) \in {"issues", "prs", "create_issue"} =>
          HasStr(params, "repo") /\ Separators(params["repo"].s) = 1
    /\ Handler(method) = "create_issue" => HasStr(params, "title")

\* C12: an optional parameter of the wrong JSON type is read as an absent
\* one and is no error: without a string state the filter is open-only and
\* the result names "open", without an integer limit the page size is 10,
\* and without a string body the issue is created without body.
C12_OptionalPermissive ==
    (/\ pc # "idle" /\ RequiredGiven
     /\ Handler(method) \in {"repos", "issues", "prs", "create_issue"}) =>
        /\ sent # <<>>
        /\ pc = "done" /\ ~result.ok => result = Attempt(Len(replies))
        /\ (Handler(method) \in {"issues", "prs"} /\ ~HasStr(params, "state")) =>
              /\ sent[1].states = <<"OPEN">>
              /\ (pc = "done" /\ result.ok) => result.v.state = "open"
        /\ (Handler(method) \in {"repos", "issues", "prs"}
                /\ ~HasInt(params, "limit")) =>
              sent[1].first = 10
        /\ (Handler(method) = "create_issue" /\ ~HasStr(params, "body")
                /\ Len(sent) = 2) =>
              sent[2].body = None

C12_Witness ==
    /\ pc = "done" /\ call = "dispatch" /\ Handler(method) = "issues"
    /\ "state" \in DOMAIN params /\ params["state"].t = "num"
    /\ "limit" \in DOMAIN params /\ params["limit"].t = "str"
    /\ sent[1].states = <<"OPEN">> /\ sent[1].first = 10
    /\ result.ok /\ result.v.state = "open"

\* char::to_lowercase on the letters of the ASCII alphabet
LowerChar(c) ==
    IF \E i \in DOMAIN UpperCase : UpperCase[i] = c
    THEN LowerCase[CHOOSE i \in DOMAIN UpperCase : UpperCase[i] = c]
    ELSE c

\* a token with its letters in lower case
RECURSIVE Lowered(_)
Lowered(s) ==
    IF s = "" THEN ""
    ELSE LowerChar(SubSeq(s, 1, 1)) \o Lowered(SubSeq(s, 2, Len(s)))

\* a call of issues or prs with a state token, past its validation
FilterCall ==
    /\ call = "dispatch" /\ pc # "idle"
    /\ Handler(method) \in {"issues", "prs"}
    /\ HasStr(params, "state")
    /\ sent # <<>>

\* C13 as stated: whatever the letter case, open gives the open-only filter,
\* closed the closed-only one, merged the merged-only one and all every
\* state, for issues as for prs; any other token gives the open-only filter.
C13_MergedForBoth ==
    FilterCall =>
        LET word == Lowered(params["state"].s) IN
        sent[1].states =
            CASE word = "open" -> <<"OPEN">>
              [] word = "closed" -> <<"CLOSED">>
              [] word = "merged" -> <<"MERGED">>
              [] word = "all" -> IF Handler(method) = "issues"
                                 THEN <<"OPEN", "CLOSED">>
                                 ELSE <<"OPEN", "CLOSED", "MERGED">>
              [] OTHER -> <<"OPEN">>

\* C13, amended: the filter depends on the token through its letters alone,
\* whatever their case.  For prs: open, closed, merged give the filter of
\* that one state and all gives the three states.  For issues: open and
\* closed give the filter of that one state and all gives the two states;
\* merged is not a token issues knows.  Any token the method does not know
\* gives the open-only filter, and no token is refused.
C13_FilterPerMethod ==
    /\ (/\ call = "dispatch" /\ pc # "idle" /\ RequiredGiven
        /\ Handler(method) \in {"issues", "prs"}) => sent # <<>>
    /\ FilterCall =>
          LET word == Lowered(params["state"].s) IN
          sent[1].states =
              IF Handler(method) = "issues"
              THEN CASE word = "open" -> <<"OPEN">>
                     [] word = "closed" -> <<"CLOSED">>
                     [] word = "all" -> <<"OPEN", "CLOSED">>
                     [] OTHER -> <<"OPEN">>
              ELSE CASE word = "open" -> <<"OPEN">>
                     [] word = "closed" -> <<"CLOSED">>
                     [] word = "merged" -> <<"MERGED">>
                     [] word = "all" -> <<"OPEN", "CLOSED", "MERGED">>
                     [] OTHER -> <<"OPEN">>

C13_Witness ==
    /\ FilterCall /\ Handler(method) = "issues"
    /\ params["state"].s = "MERGED"
    /\ sent[1].states = <<"OPEN">>
    /\ pc = "done" /\ result.ok

\* a call of health that returned
HealthReturned == call = "dispatch" /\ Handler(method) = "health" /\ pc = "done"

\* C14: health answers with a value exactly when the identity round trip
\* succeeds; the value has api_connected true and status "healthy" when the
\* login is not empty, api_connected false and status "unhealthy" when it is
\* empty, so that status is "healthy" exactly when api_connected is true.
C14_HealthyIffConnected ==
    HealthReturned =>
        /\ Len(sent) = 1 /\ Len(replies) = 1
        /\ result.ok <=> Attempt(1).ok
        /\ result.ok =>
              /\ result.v.api_connected <=> (Attempt(1).v.login # "")
              /\ result.v.status \in {"healthy", "unhealthy"}
              /\ result.v.status = "healthy" <=> result.v.api_connected

C14_Witness ==
    /\ HealthReturned /\ result.ok
    /\ Attempt(1).ok /\ Attempt(1).v.login = ""
    /\ result.v.status = "unhealthy" /\ ~result.v.api_connected

\* C15: on_start sends one probe; when the probe returns an error on_start
\* fails with that error, and when the probe completes, with an empty login
\* or not, on_start succeeds.
C15_StartFailsOnProbeError ==
    (call = "on_start") =>
        /\ Len(sent) = 1
        /\ sent[1].api = "graphql" /\ sent[1].op = "ping"
        /\ pc = "done" =>
              /\ result.ok <=> Attempt(1).ok
              /\ ~Attempt(1).ok => result = Attempt(1)

C15_Witness ==
    /\ call = "on_start" /\ pc = "done"
    /\ Attempt(1).ok /\ Attempt(1).v.login = ""
    /\ result.ok

\* C16: whenever its probe returns, health_check returns a map with the one
\* key github_api: healthy, with a latency, when the probe gave a login that
\* is not empty; unhealthy when the login is empty; unhealthy with the text
\* of the error when the probe failed.
C16_HealthCheckMap ==
    (call = "health_check" /\ pc = "done") =>
        /\ Len(sent) = 1 /\ Len(replies) = 1
        /\ DOMAIN result = {"github_api"}
        /\ LET status == result["github_api"]
               probe == Attempt(1)
           IN IF probe.ok /\ probe.v.login # ""
              THEN status.ok /\ status.latency_ms.some
              ELSE IF probe.ok
              THEN ~status.ok /\ status.message.some
              ELSE ~status.ok /\ status.message = Some(Display(probe.e))

C16_Witness ==
    /\ call = "health_check" /\ pc = "done"
    /\ ~Attempt(1).ok /\ Attempt(1).e.kind = "HttpStatus"
    /\ ~result["github_api"].ok
    /\ result["github_api"].message = Some(Display(Attempt(1).e))

\* C17: a dispatch call that ends after a request fails exactly when its
\* last request failed, and with the error of that request, unchanged.
C17_FailureUnchanged ==
    (call = "dispatch" /\ pc = "done" /\ replies # <<>>) =>
        /\ result.ok <=> Attempt(Len(replies)).ok
        /\ ~result.ok => result = Attempt(Len(replies))

C17_Witness ==
    /\ call = "dispatch" /\ pc = "done"
    /\ Handler(method) = "notifications"
    /\ Len(replies) = 1 /\ IsHttp2xx(replies[1])
    /\ ~result.ok /\ result = Attempt(1)
    /\ result.e.kind = "RestParse"

\* C18 as stated: no reply makes a call panic.
C18_NeverPanics == pc # "panicked"

\* how the current call stands is how the call would stand in a service that
\* was just constructed, given the same replies
AsInFreshService ==
    LET step == dispatch(built.token, method, params, replies) IN
    /\ pc = "done" => (step.done /\ step.r = result)
    /\ pc = "wait" => (~step.done /\ step.req = sent[Len(sent)])

OwnResult(t) ==
    LET c == threads[t]
        step == dispatch(token, c.method, c.params, c.replies)
    IN /\ c.pc = "done" => (step.done /\ step.r = c.result)
       /\ c.pc = "wait" => (~step.done /\ step.req = c.sent[Len(c.sent)])
       /\ (c.pc = "done" /\ c.result.ok /\ Handler(c.method) = "pr") =>
             c.result.v.number = c.params["number"].n.lo
       /\ (c.pc = "done" /\ c.result.ok /\ Handler(c.method) = "create_issue") =>
             c.result.v.issue.title = c.params["title"].s

\* thread t can take its next step
CanStep(t) ==
    CASE threads[t].pc = "idle" ->
            \A c \in ThreadCalls : ENABLED ThreadDispatch(t, c.method, c.params)
      [] threads[t].pc = "wait" ->
            \A reply \in ThreadReplies(threads[t].sent[Len(threads[t].sent)]) :
                ENABLED ThreadReceive(t, reply)
      [] threads[t].pc = "done" -> ENABLED ThreadFinish(t)
      [] OTHER -> TRUE

\* C20: whatever the other threads are at, a thread can invoke dispatch,
\* get the reply to its request and return; and what a thread gets is the
\* result of its own call: of its own parameters and of the replies to its
\* own requests.
C20_BridgedNotQueued ==
    \A t \in Threads : CanStep(t) /\ OwnResult(t)

C20_Witness ==
    /\ threads[1].pc = "wait" /\ Handler(threads[1].method) = "pr"
    /\ threads[2].pc = "done" /\ Handler(threads[2].method) = "pr"
    /\ threads[1].params["number"] # threads[2].params["number"]
    /\ threads[2].result.ok
    /\ threads[2].result.v.number = threads[2].params["number"].n.lo

\* a call of pr that was answered by a 2xx envelope whose data holds a null
\* pullRequest node, the answer for a number the repository has no pull
\* request of
NullNodeReply ==
    /\ call = "dispatch" /\ Handler(method) = "pr"
    /\ replies # <<>>
    /\ IsHttp2xx(replies[1])
    /\ replies[1].body.t = "envelope"
    /\ replies[1].body.data = JValue(NullNode)

InTable(m) ==
    \/ m \in TableMethods
    \/ \E t \in TableMethods \ {"health"} : m = Namespaced(t)

\* C25: dispatch with a method name outside the table returns the
\* UnknownMethod error naming that method, whatever the parameter map, and
\* sends nothing.
C25_UnknownMethod ==
    (call = "dispatch" /\ pc # "idle" /\ ~InTable(method)) =>
        /\ pc = "done"
        /\ sent = <<>> /\ replies = <<>>
        /\ result = Err([kind |-> "UnknownMethod", name |-> method])
        /\ Display(result.e) = <<Seg("UnknownMethod", 30)>>

C25_Witness ==
    /\ call = "dispatch" /\ method = "bogus"
    /\ HasStr(params, "repo") /\ Separators(params["repo"].s) = 1
    /\ HasInt(params, "number")
    /\ pc = "done" /\ sent = <<>>
    /\ result = Err([kind |-> "UnknownMethod", name |-> "bogus"])

\* the one request that writes, and the requests that read
IsWrite(req) == req.api = "graphql" /\ req.op = "createIssue"
IsRead(req) ==
    \/ req.api = "graphql"
       /\ req.op \in {"ping", "viewer", "repos", "issues", "prs", "pr", "repo_id"}
    \/ req.api = "rest" /\ req.op = "/notifications"

\* C27: the createIssue mutation is the only request that writes.  It is
\* sent only by create_issue, as the second request of the call, after the
\* lookup of the repository id for the owner and name of the call's repo
\* succeeded, and with the id that lookup returned.  When the lookup fails,
\* the mutation is not sent and the call returns the lookup's error.  Every
\* other request reads.
C27_WriteAfterLookup ==
    /\ \A i \in DOMAIN sent :
          IF IsWrite(sent[i])
          THEN /\ call = "dispatch" /\ Handler(method) = "create_issue"
               /\ i = 2
               /\ sent[1].api = "graphql" /\ sent[1].op = "repo_id"
               /\ HasStr(params, "repo")
               /\ sent[1].owner \o <<"/">> \o sent[1].name = params["repo"].s
               /\ Attempt(1).ok
               /\ sent[2].repositoryId = Attempt(1).v.id
          ELSE IsRead(sent[i])
    /\ (/\ call = "dispatch" /\ Handler(method) = "create_issue"
        /\ replies # <<>> /\ ~Attempt(1).ok) =>
          /\ Len(sent) = 1
          /\ pc # "wait"
          /\ pc = "done" => result = Attempt(1)

C27_Witness ==
    /\ call = "dispatch" /\ Handler(method) = "create_issue"
    /\ pc = "done" /\ result.ok
    /\ Len(sent) = 2 /\ IsWrite(sent[2])
    /\ sent[2].repositoryId = <<"R_", "a", "/", "a">>
    /\ sent[1].owner = <<"a">> /\ sent[1].name = <<"a">>

\* the state tokens a method knows, in lower case
KnownTokens(handler) ==
    IF handler = "issues" THEN {"open", "closed", "all"}
    ELSE {"open", "closed", "merged", "all"}

\* C28: the state field of the result of issues and prs is the token the
\* caller gave, letter for letter ("open" when there is none or it is no
\* string).  A token the method does not know comes back as it was given,
\* with the items upstream returned for the open-only filter.
C28_StateEchoed ==
    (/\ call = "dispatch" /\ pc = "done" /\ result.ok
     /\ Handler(method) \in {"issues", "prs"}) =>
        /\ result.v.state =
              IF HasStr(params, "state") THEN params["state"].s ELSE "open"
        /\ LET items == IF Handler(method) = "issues" THEN result.v.issues
                        ELSE result.v.prs
           IN items = Attempt(1).v.nodes
        /\ (/\ HasStr(params, "state")
            /\ Lowered(params["state"].s) \notin KnownTokens(Handler(method))) =>
              sent[1].states = <<"OPEN">>

C28_Witness ==
    /\ call = "dispatch" /\ Handler(method) = "issues"
    /\ pc = "done" /\ result.ok
    /\ HasStr(params, "state") /\ params["state"].s = "bogus"
    /\ result.v.state = "bogus"
    /\ sent[1].states = <<"OPEN">>
    /\ result.v.issues # <<>>

\* C30: parse_repo accepts a string exactly when it holds one separator;
\* "/", "a/" and "/a" are accepted, and the request goes out with the empty
\* owner or name.  The owner and the name joined by the separator are the
\* string that was given.
C30_ExactlyOneSeparator ==
    (/\ call = "dispatch" /\ pc # "idle"
     /\ Handler(method) \in {"issues", "prs", "pr", "create_issue"}
     /\ HasStr(params, "repo")) =>
        LET repo_str == params["repo"].s
            parsed == parse_repo(repo_str)
        IN /\ parsed.ok <=> (Separators(repo_str) = 1)
           /\ parsed.ok => parsed.v[1] \o <<"/">> \o parsed.v[2] = repo_str
           /\ RefusedRepoFormat <=> (Separators(repo_str) # 1)
           /\ sent # <<>> =>
                 sent[1].owner \o <<"/">> \o sent[1].name = repo_str

C30_Witness ==
    /\ call = "dispatch" /\ Handler(method) = "issues"
    /\ HasStr(params, "repo") /\ params["repo"].s = <<"/">>
    /\ pc = "done" /\ result.ok
    /\ sent[1].owner = <<>> /\ sent[1].name = <<>>

\* the 64-bit integer is inside the range of 32-bit signed integers
InI32Range(v) == v.hi = (IF v.lo < 0 THEN -1 ELSE 0)

\* where the call stands is where it would stand had the parameter key been
\* given as the 32-bit integer n
SameWith(key, n) ==
    LET step == dispatch(token, method, (key :> JNum(Small(n))) @@ params, replies) IN
    /\ pc = "done" => (step.done /\ step.r = result)
    /\ pc = "wait" => (~step.done /\ step.req = sent[Len(sent)])

\* C29: get_i32 takes the low 32 bits of the JSON integer, read as a signed
\* integer, and checks no range: a limit or a number outside the 32-bit
\* range is taken for the number it wraps to, without an error.  A number
\* that is a multiple of 2^32 wraps to 0 and is refused as a missing number,
\* as 0 itself is; a negative number is sent upstream.
C29_WrapAround ==
    (/\ call = "dispatch" /\ pc # "idle"
     /\ Handler(method) \in {"repos", "issues", "prs", "pr"}
     /\ Handler(method) # "repos" =>
           HasStr(params, "repo") /\ Separators(params["repo"].s) = 1) =>
        /\ (Handler(method) # "pr" /\ HasInt(params, "limit")) =>
              /\ sent # <<>>
              /\ sent[1].first = params["limit"].n.lo
              /\ SameWith("limit", params["limit"].n.lo)
        /\ (Handler(method) = "pr" /\ HasInt(params, "number")) =>
              /\ SameWith("number", params["number"].n.lo)
              /\ IF params["number"].n.lo = 0
                 THEN RefusedFor("number")
                 ELSE /\ sent # <<>>
                      /\ sent[1].number = params["number"].n.lo
                      /\ pc = "done" => result # MissingParameter("number")

C29_Witness ==
    /\ call = "dispatch" /\ Handler(method) = "pr"
    /\ HasInt(params, "number") /\ params["number"].n = I64(0, -3)
    /\ ~InI32Range(params["number"].n)
    /\ pc = "done" /\ result.ok
    /\ sent[1].number = -3

\* a repository that holds three open issues and two closed ones
ThreeOpenTwoClosed == <<"OPEN", "CLOSED", "OPEN", "OPEN", "CLOSED">>

\* C23: in a successful list result the count is the number of items of the
\* list returned, and the list is the one upstream answered with; the
\* unread_count of notifications is the number of notifications whose unread
\* flag is set.  issues with state all and limit 5 for a repository of three
\* open and two closed issues returns count 5.
C23_CountsMatch ==
    (call = "dispatch" /\ pc = "done" /\ result.ok) =>
        /\ Handler(method) = "repos" =>
              /\ result.v.repos = Attempt(1).v.nodes
              /\ result.v.count = Cardinality(DOMAIN result.v.repos)
        /\ Handler(method) = "issues" =>
              /\ result.v.issues = Attempt(1).v.nodes
              /\ result.v.count = Cardinality(DOMAIN result.v.issues)
        /\ Handler(method) = "prs" =>
              /\ result.v.prs = Attempt(1).v.nodes
              /\ result.v.count = Cardinality(DOMAIN result.v.prs)
        /\ Handler(method) = "notifications" =>
              /\ result.v.notifications = Attempt(1).v.nodes
              /\ result.v.unread_count =
                    Cardinality({i \in DOMAIN result.v.notifications :
                                    result.v.notifications[i].unread})
        /\ (/\ Handler(method) = "issues"
            /\ params["state"] = JStr("all") /\ params["limit"] = JNum(Small(5))
            /\ replies[1] = ListReply(sent[1], Answer(ThreeOpenTwoClosed, sent[1]))) =>
              result.v.count = 5

C23_Witness ==
    /\ call = "dispatch" /\ pc = "done" /\ result.ok
    /\ Handler(method) = "issues"
    /\ params["state"] = JStr("all") /\ params["limit"] = JNum(Small(5))
    /\ replies[1] = ListReply(sent[1], Answer(ThreeOpenTwoClosed, sent[1]))
    /\ result.v.count = 5
    /\ Cardinality({i \in DOMAIN result.v.issues : result.v.issues[i].state = "OPEN"}) = 3
    /\ Cardinality({i \in DOMAIN result.v.issues : result.v.issues[i].state = "CLOSED"}) = 2

\* the catalogue was asked for and returned
Catalogued == call = "method_list" /\ pc = "done"

\* a well-formed value for each parameter
GoodValue(key) ==
    CASE key = "repo" -> JStr(<<"a", "/", "a">>)
      [] key = "state" -> JStr("closed")
      [] key = "limit" -> JNum(Small(5))
      [] key = "number" -> JNum(Small(7))
      [] key = "title" -> JStr("t")
      [] OTHER -> JStr("b")

\* the parameters an entry names, well formed, and the same without one
GoodParams(entry) ==
    LET names == {entry.params[i].name : i \in DOMAIN entry.params}
    IN [k \in names |-> GoodValue(k)]
Without(p, key) == [k \in DOMAIN p \ {key} |-> p[k]]

\* a reply that answers a request with what it asked for
GoodReply(req) ==
    LET v == CHOOSE x \in GoodPayloads(req) : TRUE IN
    [kind |-> "http", status |-> 200,
     body |-> IF req.api = "rest" THEN JsonBody(v)
              ELSE [t |-> "envelope", data |-> JValue(v), errors |-> JMissing]]

\* the course of a call of the entry's method with the parameters p when
\* upstream answers every request with what it asked for: the requests the
\* call sends, and the error it is refused with before the first of them
Course(entry, p) ==
    LET first == dispatch(token, entry.name, p, <<>>) IN
    IF first.done THEN [refused |-> Some(first.r), requests |-> <<>>]
    ELSE LET second == dispatch(token, entry.name, p, <<GoodReply(first.req)>>) IN
         [refused |-> None,
          requests |-> IF second.done THEN <<first.req>>
                       ELSE <<first.req, second.req>>]

\* what the handler behind an entry does with the parameter info names:
\* whether it refuses the call without it, whether it reads a value of the
\* JSON type named and takes a value of the other type for no value, and
\* whether the default named stands for its absence
RefusesWithout(entry, info) ==
    Course(entry, Without(GoodParams(entry), info.name)).refused
        = Some(MissingParameter(info.name))
ReadsAs(entry, info) ==
    LET other == IF info.param_type = "string" THEN JNum(Small(1)) ELSE JStr("7")
        given == Course(entry, GoodParams(entry))
        absent == Course(entry, Without(GoodParams(entry), info.name))
    IN /\ info.param_type \in {"string", "integer"}
       /\ Course(entry, (info.name :> other) @@ GoodParams(entry)) = absent
       /\ given # absent
DefaultStands(entry, info) ==
    LET absent == Course(entry, Without(GoodParams(entry), info.name)) IN
    IF info.default.some
    THEN Course(entry, (info.name :> info.default.v) @@ GoodParams(entry)) = absent
    ELSE \/ info.required
         \/ \E i \in DOMAIN absent.requests :
               /\ info.name \in DOMAIN absent.requests[i]
               /\ absent.requests[i][info.name] = None

\* an entry says of its method what the handler does
EntryAgrees(entry) ==
    /\ {entry.params[i].name : i \in DOMAIN entry.params} = ParamKeys(entry.name)
    /\ \A i, j \in DOMAIN entry.params :
          entry.params[i].name = entry.params[j].name => i = j
    /\ \A i \in DOMAIN entry.params :
          LET info == entry.params[i] IN
          /\ info.required <=> RefusesWithout(entry, info)
          /\ ReadsAs(entry, info)
          /\ DefaultStands(entry, info)

\* C24 as stated: the catalogue has one entry for each of the eight methods
\* of the table, health included, each entry agrees with its handler, and
\* every name it holds is one dispatch knows.
C24_WholeTable ==
    Catalogued =>
        /\ Len(result) = 8
        /\ \A m \in TableMethods : \E i \in DOMAIN result : Handler(result[i].name) = m
        /\ \A i \in DOMAIN result :
              Handler(result[i].name) # "unknown" /\ EntryAgrees(result[i])

\* C24, amended: the catalogue has seven entries, one under the namespaced
\* name of each method of the table but health, which it does not hold.
\* Every name it holds is one dispatch knows, and each entry names the
\* parameters its handler reads, with the JSON type the handler reads them
\* as, required exactly when the handler refuses the call without them, and
\* with the default the handler takes in their absence.
C24_CatalogueButHealth ==
    Catalogued =>
        /\ Len(result) = 7
        /\ {result[i].name : i \in DOMAIN result}
              = {Namespaced(m) : m \in TableMethods \ {"health"}}
        /\ \A i \in DOMAIN result :
              /\ Handler(result[i].name) \notin {"unknown", "health"}
              /\ Course(result[i], GoodParams(result[i])).requests # <<>>
              /\ EntryAgrees(result[i])
        /\ \A m \in TableMethods \ {"health"} :
              \E i \in DOMAIN result : Handler(result[i].name) = m

C24_Witness ==
    /\ Catalogued
    /\ \A i \in DOMAIN result : Handler(result[i].name) # "health"
    /\ \E i \in DOMAIN result :
          /\ result[i].name = "github.pr"
          /\ \E k \in DOMAIN result[i].params :
                /\ result[i].params[k].name = "number"
                /\ result[i].params[k].required
                /\ RefusesWithout(result[i], result[i].params[k])

\* C26: a User, a Repository, an Issue, a PullRequest with its reviews and a
\* Notification, serialized and read back, is the record it was: an absent
\* optional field is written as null and read as absent, a list keeps its
\* length and the order of its elements, numbers and flags are unchanged.
C26_RoundTrip ==
    /\ codec.stage \in {"value", "back"} =>
          /\ codec.value.t = "obj"
          /\ DOMAIN codec.value.o = FieldNames(codec.kind)
          /\ \A name \in FieldNames(codec.kind) :
                (/\ FieldType(codec.kind, name) = "Option<String>"
                 /\ ~codec.record[name].some) => codec.value.o[name] = JNull
    /\ codec.stage = "back" =>
          /\ codec.back.ok
          /\ codec.back.v = codec.record
          /\ \A name \in FieldNames(codec.kind) :
                codec.back.v[name] = codec.record[name]

C26_Witness ==
    /\ codec.stage = "back" /\ codec.kind = "PullRequest"
    /\ Len(codec.record.reviews) = 2
    /\ codec.record.reviews[1] # codec.record.reviews[2]
    /\ ~codec.record.reviews[1].author.some
    /\ codec.value.o["reviews"].l[1].o["author"] = JNull
    /\ codec.back.ok
    /\ codec.back.v.reviews = codec.record.reviews
    /\ ~codec.back.v.author.some

\* C21: every call of dispatch ends: a request that gets no answer is ended
\* by the client's timeout, as a failure of that request, so no call waits
\* for ever; a call sends two requests at most, each after the reply to the
\* one before.  (A call ends when it returns or, for the replies of C18,
\* when it unwinds.)
C21_EveryCallEnds ==
    /\ [](/\ Len(sent) <= 2
          /\ Len(replies) <= Len(sent)
          /\ pc = "wait" <=> Len(sent) = Len(replies) + 1
          /\ \A i \in DOMAIN replies :
                replies[i] = TimedOut =>
                   (~Attempt(i).ok /\ Attempt(i).e.kind = "SendFailed"))
    /\ (pc = "wait") ~> (pc \in {"done", "panicked"})

C21_Witness ==
    /\ call = "dispatch" /\ Handler(method) = "create_issue"
    /\ pc = "done"
    /\ Len(sent) = 2 /\ Len(replies) = 2
    /\ replies[2] = TimedOut
    /\ TimedOut.after = RequestTimeout
    /\ result = Err([kind |-> "SendFailed", api |-> "GraphQL"])

====
